---- MODULE Spec2Model ----
(***************************************************************************)
(* gomediaimport: import planning (duplicate index, destination filename   *)
(* resolver, sidecar linker) and the concurrent copy engine (copyFiles     *)
(* worker pool, copyFile), followed by deleteOriginalFiles.                *)
(*                                                                         *)
(* Sources modelled: the newest importMedia/copyFiles/copyFile in          *)
(* src/unnamed/part_013 (lines 213-699) and the newest resolver in         *)
(* src/cmd/gomediaimport/file_operations.go (lines 166-485), with          *)
(* src/cmd/gomediaimport/media_types.go (lines 156-319).                   *)
(*                                                                         *)
(* Indices are 1-based here (Go's files[k] is files[k+1]); ParentIndex     *)
(* keeps the sentinel -1.                                                  *)
(***************************************************************************)
EXTENDS Integers, Sequences, FiniteSets, TLC

VARIABLES
    cfg,            \* the resolved configuration (never changes)
    srcDisk,        \* source tree: path -> [content, mtime]
    disk,           \* destination tree: path -> [content, gen, mtime]
    dirs,           \* destination directories that exist
    files,          \* the []FileInfo slice of importMedia
    sizeTimeIndex,  \* map[fileSizeTime][]int
    parentIndex,    \* map[parentKey]int
    pc,             \* position of the main goroutine
    idx,            \* loop variable i of the planning loops
    looked,         \* the records that were looked up in sizeTimeIndex
    jobs,           \* the buffered, closed job channel
    wpc,            \* per worker: position in the worker loop
    wjob,           \* per worker: the index it is working on, 0 between jobs
    whandle,        \* per worker: inode (gen) behind its destination handle
    copyLog,        \* per record: what copyFile achieved for it
    copiedSize,     \* atomic.Int64 bytes-completed counter
    copyErrors,     \* []error, as the record indices whose error was appended
    totalSize,      \* total byte volume of the work list
    received,       \* per record: how often a worker received its index
    faults,         \* number of I/O faults injected so far
    second,         \* FALSE in the first run, TRUE in the re-run
    prevFiles,      \* the records as the first run left them (<<>> during it)
    wroteBytes,     \* TRUE once a byte was written to the destination in this run
    ejected,        \* TRUE once the eject step was invoked in the current run
    ret,            \* what importMedia returned in the current run
    call,           \* a call of getSidecarAction: its ext argument and its result
    denied,         \* destination paths whose os.Stat fails, not with "not exist"
    unreadable      \* paths, source or destination, that os.Open refuses

planVars == <<files, sizeTimeIndex, parentIndex, idx, looked>>
poolVars == <<jobs, wpc, wjob, whandle, copyLog, copiedSize, copyErrors, totalSize,
              received>>
fsVars == <<disk, dirs>>
runVars == <<second, prevFiles, wroteBytes, ejected, ret>>
envVars == <<denied, unreadable>>

vars == <<cfg, envVars, call, srcDisk, pc, faults, planVars, poolVars, fsVars, runVars>>

(***************************************************************************)
(* Bounds of the model.                                                    *)
(***************************************************************************)
MaxFiles == 3       \* source files per run
MaxJobs == 2        \* source files per run when several workers copy
MaxWorkers == 2     \* largest configured worker count
MaxRunFiles == 1    \* source files per run when the worker count is any integer
MaxFaults == 1      \* I/O faults injected per run
MaxSuffix == 2      \* stands for the 999999 of the disambiguation loop

(***************************************************************************)
(* Program constants.                                                      *)
(***************************************************************************)
StatusNone == ""
StatusCopied == "copied"
StatusPreExisting == "pre-existing"
StatusFailed == "failed"
StatusUnnamable == "unnamable"
StatusDirectoryCreationFailed == "directory creation failed"
StatusSidecarDeleted == "sidecar deleted"

SidecarIgnore == "ignore"
SidecarCopy == "copy"
SidecarDelete == "delete"

Sidecar == "sidecar"
ProcessedPicture == "processed_picture"

DefaultWorkers == 4
NoParent == -1
NoChecksum == <<>>

\* the rows of the fileTypes table the source tree uses
fileTypes == << [FileType |-> "jpeg", MediaCategory |-> ProcessedPicture,
                 Extensions |-> <<"jpg", "jpeg", "jpe">>],
                [FileType |-> "png", MediaCategory |-> ProcessedPicture,
                 Extensions |-> <<"png">>] >>

sidecarDefaults == [e \in {"thm", "ctg", "xmp", "aae", "lrf", "srt", "mpl", "cpi"} |->
                      IF e \in {"xmp", "srt"} THEN SidecarCopy ELSE SidecarDelete]

(***************************************************************************)
(* Strings: names are [base, ext] with ext carrying its dot, which is what *)
(* filepath.Ext / strings.TrimSuffix split a name into.                    *)
(***************************************************************************)
ToLower(s) ==
    CASE s = "A" -> "a"
      [] s = ".XMP" -> ".xmp"
      [] s = ".JPG" -> ".jpg"
      [] OTHER -> s

\* ext[1:] : the extension without its leading dot
StripDot(e) ==
    CASE e = ".jpg" -> "jpg"
      [] e = ".jpeg" -> "jpeg"
      [] e = ".png" -> "png"
      [] e = ".xmp" -> "xmp"
      [] e = ".thm" -> "thm"
      [] OTHER -> e

NoName == [base |-> "", ext |-> ""]

\* fmt.Sprintf("_%03d", i)
\* a suffix without the zero padding
SuffixUnpadded(i) == "_" \o ToString(i)

Suffix(i) ==
    "_" \o (IF i < 10 THEN "00" ELSE IF i < 100 THEN "0" ELSE "") \o ToString(i)

\* time.Time.Format("2006/01") and Format("20060102_150405"): both drop the
\* sub-second part that the fileSizeTime key keeps
FormatMonth(t) == t.y \o "/" \o t.m
FormatDateTime(t) == t.y \o t.m \o t.rest

Join(dir, sub) == dir \o "/" \o sub


(***************************************************************************)
(* The file systems.  A path is <<dir, name>>.  A file's content is a      *)
(* sequence of bytes, so its size is the length and a partial write is a   *)
(* prefix.  gen names the inode: 0 for a file that was there before the    *)
(* run, the creating job's index otherwise.                                *)
(***************************************************************************)
SourceRoot == "S"
DestRoot == "D"

T0 == [y |-> "2024", m |-> "01", rest |-> "01_120000", ns |-> "000"]
T1 == [y |-> "2024", m |-> "01", rest |-> "01_120000", ns |-> "500"]
T2 == [y |-> "2024", m |-> "02", rest |-> "03_090000", ns |-> "000"]

\* the modification time of a file the destination held before the run, and
\* the time of the run, which a file gets when it is created or written
TBefore == [y |-> "2023", m |-> "12", rest |-> "24_180000", ns |-> "000"]
TRun == [y |-> "2024", m |-> "03", rest |-> "01_080000", ns |-> "000"]

\* the card's files in filepath.WalkDir's (lexical) order
WalkOrder ==
    << [dir |-> Join(SourceRoot, "s1"), name |-> [base |-> "A", ext |-> ".xmp"],
        content |-> <<3>>, mtime |-> T2],
       [dir |-> Join(SourceRoot, "s1"), name |-> [base |-> "a", ext |-> ".jpeg"],
        content |-> <<1, 1>>, mtime |-> T1],
       [dir |-> Join(SourceRoot, "s1"), name |-> [base |-> "a", ext |-> ".jpg"],
        content |-> <<1>>, mtime |-> T0],
       [dir |-> Join(SourceRoot, "s1"), name |-> [base |-> "b", ext |-> ".jpeg"],
        content |-> <<2>>, mtime |-> T0],
       [dir |-> Join(SourceRoot, "s2"), name |-> [base |-> "a", ext |-> ".jpg"],
        content |-> <<1>>, mtime |-> T0],
       [dir |-> Join(SourceRoot, "s2"), name |-> [base |-> "a", ext |-> ".xmp"],
        content |-> <<4, 4>>, mtime |-> T2],
       [dir |-> Join(SourceRoot, "s2"), name |-> [base |-> "c", ext |-> ".jpg"],
        content |-> <<1, 2>>, mtime |-> T1] >>

PathOf(e) == <<e.dir, e.name>>

\* the whole card, and the card without s1/a.jpeg, which shares its
\* directory and base name with s1/a.jpg
Card == DOMAIN WalkOrder
CardOfDistinctNames ==
    {k \in Card : WalkOrder[k].name # [base |-> "a", ext |-> ".jpeg"]}

\* the source tree holding the card files numbered in S
SourceTree(S) ==
    [p \in {PathOf(WalkOrder[k]) : k \in S} |->
        LET k == CHOOSE j \in S : PathOf(WalkOrder[j]) = p
        IN [content |-> WalkOrder[k].content, mtime |-> WalkOrder[k].mtime]]

\* xxhash of a content, taken as collision free; never the empty checksum
XXHash(content) == <<Len(content)>> \o content

(***************************************************************************)
(* media_types.go                                                          *)
(***************************************************************************)
RECURSIVE Contains(_, _)
Contains(seq, x) ==
    IF seq = <<>> THEN FALSE
    ELSE IF Head(seq) = x THEN TRUE ELSE Contains(Tail(seq), x)

RECURSIVE TypeRowOfExt(_, _)
TypeRowOfExt(rows, e) ==
    IF rows = <<>> THEN [FileType |-> "", MediaCategory |-> "", Extensions |-> <<>>]
    ELSE IF Contains(Head(rows).Extensions, e) THEN Head(rows)
    ELSE TypeRowOfExt(Tail(rows), e)

getMediaTypeInfo(sourceName) ==
    LET ext == ToLower(sourceName.ext)
        row == TypeRowOfExt(fileTypes, StripDot(ext))
    IN IF ext = "" THEN [MediaCategory |-> "", FileType |-> ""]
       ELSE [MediaCategory |-> row.MediaCategory, FileType |-> row.FileType]

RECURSIVE FirstExtOf(_, _)
FirstExtOf(rows, fileType) ==
    IF rows = <<>> THEN ""
    ELSE IF Head(rows).FileType = fileType /\ Len(Head(rows).Extensions) > 0
         THEN Head(rows).Extensions[1]
    ELSE FirstExtOf(Tail(rows), fileType)

getFirstExtensionForFileType(fileType) == FirstExtOf(fileTypes, fileType)

isSidecarExtension(ext) == ext \in DOMAIN sidecarDefaults

\* a resolution that asks the built-in table before the overrides
getSidecarActionBuiltInFirst(ext, sidecarOverrides, sidecarDefault) ==
    IF ext \in DOMAIN sidecarDefaults THEN sidecarDefaults[ext]
    ELSE IF ext \in DOMAIN sidecarOverrides THEN sidecarOverrides[ext]
    ELSE sidecarDefault

getSidecarAction(ext, sidecarOverrides, sidecarDefault) ==
    IF ext \in DOMAIN sidecarOverrides THEN sidecarOverrides[ext]
    ELSE IF ext \in DOMAIN sidecarDefaults THEN sidecarDefaults[ext]
    ELSE sidecarDefault

(***************************************************************************)
(* enumerateFiles, followed by importMedia's ParentIndex = -1 loop         *)
(***************************************************************************)
NewFileInfo(e, category, fileType) ==
    [SourceName |-> e.name, SourceDir |-> e.dir, DestName |-> NoName,
     DestDir |-> "", SourceChecksum |-> NoChecksum,
     CreationDateTime |-> e.mtime, Size |-> Len(e.content),
     MediaCategory |-> category, FileType |-> fileType,
     Status |-> StatusNone, ParentIndex |-> NoParent,
     Stats |-> 0, Hashed |-> 0]

\* a walk that makes a record of every sidecar, whatever its action
RECURSIVE WalkKeepsIgnored(_, _, _)
WalkKeepsIgnored(entries, sd, c) ==
    IF entries = <<>> THEN <<>>
    ELSE LET e == Head(entries)
             rest == WalkKeepsIgnored(Tail(entries), sd, c)
             info == getMediaTypeInfo(e.name)
         IN IF PathOf(e) \notin DOMAIN sd THEN rest
            ELSE IF info.MediaCategory = "" THEN
                IF isSidecarExtension(StripDot(ToLower(e.name.ext)))
                THEN <<NewFileInfo(e, Sidecar, "")>> \o rest
                ELSE rest
            ELSE <<NewFileInfo(e, info.MediaCategory, info.FileType)>> \o rest

RECURSIVE Walk(_, _, _)
Walk(entries, sd, c) ==
    IF entries = <<>> THEN <<>>
    ELSE LET e == Head(entries)
             rest == Walk(Tail(entries), sd, c)
             info == getMediaTypeInfo(e.name)
             ext == StripDot(ToLower(e.name.ext))
         IN IF PathOf(e) \notin DOMAIN sd THEN rest
            ELSE IF info.MediaCategory = "" THEN
                IF isSidecarExtension(ext)
                   /\ getSidecarAction(ext, c.Sidecars, c.SidecarDefault) # SidecarIgnore
                THEN <<NewFileInfo(e, Sidecar, "")>> \o rest
                ELSE rest
            ELSE <<NewFileInfo(e, info.MediaCategory, info.FileType)>> \o rest

enumerateFiles(sd, c) == Walk(WalkOrder, sd, c)


(***************************************************************************)
(* file_operations.go: the duplicate index and the filename resolver       *)
(***************************************************************************)
SourcePath(file) == <<file.SourceDir, file.SourceName>>

\* calculateXXHash: fails when the file cannot be opened
calculateXXHash(d, path) ==
    IF path \in DOMAIN d /\ path \notin unreadable
    THEN [err |-> FALSE, sum |-> XXHash(d[path].content)]
    ELSE [err |-> TRUE, sum |-> NoChecksum]

\* a stat whose every failure counts as "does not exist"
existsOrAbsent(d, destPath) ==
    [ok |-> destPath \in DOMAIN d /\ destPath \notin denied, err |-> FALSE]

\* exists: (bool, error) of os.Stat
exists(d, destPath) ==
    IF destPath \in denied THEN [ok |-> FALSE, err |-> TRUE]
    ELSE [ok |-> destPath \in DOMAIN d, err |-> FALSE]

fileSizeTime(file) == <<file.Size, file.CreationDateTime>>

\* a test that never finds a name taken
isNameTakenNever(fs, currentIndex, proposedName) == FALSE

isNameTakenByPreviousFile(fs, currentIndex, proposedName) ==
    \E i \in 1..(currentIndex - 1) :
        fs[i].DestDir = fs[currentIndex].DestDir /\ fs[i].DestName = proposedName

\* a resolver that takes a same-size file for a duplicate only on a checksum
isDuplicateChecksumOnly(file, destPath, checksumDuplicates, d, sd) ==
    IF destPath \notin DOMAIN d THEN [dup |-> FALSE, err |-> FALSE, file |-> file]
    ELSE IF Len(d[destPath].content) # file.Size
    THEN [dup |-> FALSE, err |-> FALSE, file |-> file]
    ELSE IF checksumDuplicates THEN
        LET src == calculateXXHash(sd, SourcePath(file))
            dst == calculateXXHash(d, destPath)
        IN [dup |-> ~src.err /\ ~dst.err /\ src.sum = dst.sum,
            err |-> src.err \/ dst.err, file |-> file]
    ELSE [dup |-> FALSE, err |-> FALSE, file |-> file]

\* a source checksum that is computed anew at every duplicate check
sourceChecksumUncached(file, sd) ==
    LET r == calculateXXHash(sd, SourcePath(file))
    IN [err |-> r.err, sum |-> r.sum,
        file |-> [file EXCEPT !.Hashed = @ + 1, !.SourceChecksum = r.sum]]

\* the source checksum of a record as every duplicate check gets it: the
\* cached SourceChecksum, or calculateXXHash of the source, which is stored
\* when it succeeds; Hashed counts the calls of calculateXXHash
sourceChecksum(file, sd) ==
    IF file.SourceChecksum # NoChecksum
    THEN [err |-> FALSE, sum |-> file.SourceChecksum, file |-> file]
    ELSE LET r == calculateXXHash(sd, SourcePath(file))
         IN [err |-> r.err, sum |-> r.sum,
             file |-> [file EXCEPT !.Hashed = @ + 1, !.SourceChecksum = r.sum]]

\* a check that fails on every name that is occupied
isDuplicateOrError(file, destPath, checksumDuplicates, d, sd) ==
    [dup |-> FALSE, err |-> destPath \in DOMAIN d \/ destPath \in denied, file |-> file]

\* a check that takes whatever file has the name for a duplicate
isDuplicateByName(file, destPath, checksumDuplicates, d, sd) ==
    IF destPath \in denied THEN [dup |-> FALSE, err |-> TRUE, file |-> file]
    ELSE [dup |-> destPath \in DOMAIN d, err |-> FALSE, file |-> file]

\* isDuplicate: [dup, err] and the record with its checksum cache updated
isDuplicate(file, destPath, checksumDuplicates, d, sd) ==
    IF destPath \in denied THEN [dup |-> FALSE, err |-> TRUE, file |-> file]
    ELSE IF destPath \notin DOMAIN d THEN [dup |-> FALSE, err |-> FALSE, file |-> file]
    ELSE IF Len(d[destPath].content) # file.Size
    THEN [dup |-> FALSE, err |-> FALSE, file |-> file]
    ELSE IF checksumDuplicates THEN
        LET src == sourceChecksum(file, sd)
            dst == calculateXXHash(d, destPath)
        IN IF src.err THEN [dup |-> FALSE, err |-> TRUE, file |-> src.file]
           ELSE IF dst.err THEN [dup |-> FALSE, err |-> TRUE, file |-> src.file]
           ELSE [dup |-> src.sum = dst.sum, err |-> FALSE, file |-> src.file]
    ELSE [dup |-> TRUE, err |-> FALSE, file |-> file]

\* the loop of isDuplicateInPreviousFiles over the indexed records
RECURSIVE MatchPrevious(_, _, _, _)
MatchPrevious(fs, currentIndex, indices, sd) ==
    IF indices = <<>> THEN [dup |-> FALSE, files |-> fs]
    ELSE LET i == Head(indices)
             sum == sourceChecksum(fs[i], sd)
             fs2 == [fs EXCEPT ![i] = sum.file]
         IN IF sum.err THEN MatchPrevious(fs2, currentIndex, Tail(indices), sd)
            ELSE IF fs2[currentIndex].SourceChecksum = sum.sum
                 THEN [dup |-> TRUE, files |-> fs2]
            ELSE MatchPrevious(fs2, currentIndex, Tail(indices), sd)

\* a lookup that takes nothing for a duplicate while checksums are off
isDuplicateInPreviousFilesByChecksum(fs, currentIndex, checksumDuplicates, index, sd) ==
    LET key == fileSizeTime(fs[currentIndex])
        cur == sourceChecksum(fs[currentIndex], sd)
        fs1 == [fs EXCEPT ![currentIndex] = cur.file]
    IN IF key \notin DOMAIN index THEN [dup |-> FALSE, files |-> fs]
       ELSE IF ~checksumDuplicates THEN [dup |-> FALSE, files |-> fs]
       ELSE IF cur.err THEN [dup |-> FALSE, files |-> fs1]
       ELSE MatchPrevious(fs1, currentIndex, index[key], sd)

\* isDuplicateInPreviousFiles: whether an indexed record duplicates the
\* current one, and the records with their checksum caches updated
isDuplicateInPreviousFiles(fs, currentIndex, checksumDuplicates, index, sd) ==
    LET key == fileSizeTime(fs[currentIndex])
        cur == sourceChecksum(fs[currentIndex], sd)
        fs1 == [fs EXCEPT ![currentIndex] = cur.file]
    IN IF key \notin DOMAIN index THEN [dup |-> FALSE, files |-> fs]
       ELSE IF ~checksumDuplicates THEN [dup |-> TRUE, files |-> fs]
       ELSE IF cur.err THEN [dup |-> FALSE, files |-> fs1]
       ELSE MatchPrevious(fs1, currentIndex, index[key], sd)

\* candidate number n of the resolver: the initial name for n = 0
Candidate(baseFilename, ext, n) ==
    IF n = 0 THEN [base |-> baseFilename, ext |-> ext]
    ELSE [base |-> baseFilename \o Suffix(n), ext |-> ext]

\* a probe that settles for the last candidate when the suffixes run out
RECURSIVE ProbeTakesLast(_, _, _, _, _, _, _, _)
ProbeTakesLast(fs0, currentIndex, baseFilename, ext, n, c, d, sd) ==
    IF n > MaxSuffix
    THEN [err |-> FALSE,
          files |-> [fs0 EXCEPT ![currentIndex].DestName =
                                   Candidate(baseFilename, ext, MaxSuffix)]]
    ELSE LET newFilename == Candidate(baseFilename, ext, n)
             fullPath == <<fs0[currentIndex].DestDir, newFilename>>
             found == exists(d, fullPath)
             fs == [fs0 EXCEPT ![currentIndex].Stats = @ + 1]
             r == isDuplicate(fs[currentIndex], fullPath, c.ChecksumDuplicates, d, sd)
         IN IF found.err THEN [err |-> TRUE, files |-> fs]
            ELSE IF ~found.ok /\ ~isNameTakenByPreviousFile(fs, currentIndex, newFilename)
            THEN [err |-> FALSE,
                  files |-> [fs EXCEPT ![currentIndex].DestName = newFilename]]
            ELSE IF r.err THEN [err |-> TRUE, files |-> [fs EXCEPT ![currentIndex] = r.file]]
            ELSE IF r.dup
            THEN [err |-> FALSE,
                  files |-> [fs EXCEPT ![currentIndex] =
                               [r.file EXCEPT !.Status = StatusPreExisting,
                                              !.DestName = newFilename]]]
            ELSE ProbeTakesLast([fs EXCEPT ![currentIndex] = r.file], currentIndex,
                                baseFilename, ext, n + 1, c, d, sd)

\* the probe of the initial name and the loop for i := 1; i <= 999999
RECURSIVE Probe(_, _, _, _, _, _, _, _)
Probe(fs0, currentIndex, baseFilename, ext, n, c, d, sd) ==
    IF n > MaxSuffix THEN [err |-> TRUE, files |-> fs0]
    ELSE LET newFilename == Candidate(baseFilename, ext, n)
             fullPath == <<fs0[currentIndex].DestDir, newFilename>>
             found == exists(d, fullPath)
             fs == [fs0 EXCEPT ![currentIndex].Stats = @ + 1]
             r == isDuplicate(fs[currentIndex], fullPath, c.ChecksumDuplicates, d, sd)
         IN IF found.err THEN [err |-> TRUE, files |-> fs]
            ELSE IF ~found.ok /\ ~isNameTakenByPreviousFile(fs, currentIndex, newFilename)
            THEN [err |-> FALSE,
                  files |-> [fs EXCEPT ![currentIndex].DestName = newFilename]]
            ELSE IF r.err THEN [err |-> TRUE, files |-> [fs EXCEPT ![currentIndex] = r.file]]
            ELSE IF r.dup
            THEN [err |-> FALSE,
                  files |-> [fs EXCEPT ![currentIndex] =
                               [r.file EXCEPT !.Status = StatusPreExisting,
                                              !.DestName = newFilename]]]
            ELSE Probe([fs EXCEPT ![currentIndex] = r.file], currentIndex,
                       baseFilename, ext, n + 1, c, d, sd)

setFinalDestinationFilename(fs, currentIndex, initialFilename, c, index, d, sd) ==
    LET newExt == getFirstExtensionForFileType(fs[currentIndex].FileType)
        ext == IF c.RenameByDateTime /\ newExt # "" THEN "." \o newExt
               ELSE initialFilename.ext
        baseFilename == initialFilename.base
        prev == isDuplicateInPreviousFiles(fs, currentIndex, c.ChecksumDuplicates, index, sd)
    IN IF prev.dup
       THEN [err |-> FALSE,
             files |-> [prev.files EXCEPT ![currentIndex].Status = StatusPreExisting,
                                          ![currentIndex].DestName =
                                              [base |-> baseFilename, ext |-> ext]]]
       ELSE Probe(prev.files, currentIndex, baseFilename, ext, 0, c, d, sd)

(***************************************************************************)
(* importMedia: planning                                                   *)
(***************************************************************************)
\* the destination directory of a record under the organize-by-date rule
PlannedDir(c, file) ==
    IF c.OrganizeByDate THEN Join(DestRoot, FormatMonth(file.CreationDateTime))
    ELSE DestRoot

\* the name a record starts from under the rename-by-date-time rule
PlannedName(c, file) ==
    IF c.RenameByDateTime
    THEN [base |-> FormatDateTime(file.CreationDateTime), ext |-> file.SourceName.ext]
    ELSE file.SourceName

\* an index that keeps only the latest record of a key
IndexAppendLatestOnly(index, key, i) ==
    [k \in DOMAIN index \cup {key} |-> IF k = key THEN <<i>> ELSE index[k]]

IndexAppend(index, key, i) ==
    IF key \in DOMAIN index THEN [index EXCEPT ![key] = Append(@, i)]
    ELSE index @@ (key :> <<i>>)

parentKey(file) == <<file.SourceDir, ToLower(file.SourceName.base)>>

\* a loop in which the last record of a key wins
RECURSIVE BuildParentIndexLastWins(_, _, _)
BuildParentIndexLastWins(fs, i, m) ==
    IF i > Len(fs) THEN m
    ELSE IF fs[i].MediaCategory = Sidecar
    THEN BuildParentIndexLastWins(fs, i + 1, m)
    ELSE BuildParentIndexLastWins(fs, i + 1,
             [k \in DOMAIN m \cup {parentKey(fs[i])} |->
                 IF k = parentKey(fs[i]) THEN i ELSE m[k]])

\* the loop that builds parentIndex: the first record of a key wins
RECURSIVE BuildParentIndex(_, _, _)
BuildParentIndex(fs, i, m) ==
    IF i > Len(fs) THEN m
    ELSE IF fs[i].MediaCategory = Sidecar \/ parentKey(fs[i]) \in DOMAIN m
    THEN BuildParentIndex(fs, i + 1, m)
    ELSE BuildParentIndex(fs, i + 1, m @@ (parentKey(fs[i]) :> i))

\* one iteration of pass 1
PlanParent ==
    /\ pc = "pass1"
    /\ idx <= Len(files)
    /\ idx' = idx + 1
    /\ looked' = IF files[idx].MediaCategory = Sidecar THEN looked
                  ELSE looked \cup {idx}
    /\ IF files[idx].MediaCategory = Sidecar
       THEN UNCHANGED <<files, sizeTimeIndex>>
       ELSE LET fs1 == [files EXCEPT ![idx].DestDir = PlannedDir(cfg, files[idx])]
                r == setFinalDestinationFilename(fs1, idx, PlannedName(cfg, fs1[idx]),
                                                 cfg, sizeTimeIndex, disk, srcDisk)
            IN IF r.err
               THEN /\ files' = [r.files EXCEPT ![idx].Status = StatusUnnamable]
                    /\ UNCHANGED sizeTimeIndex
               ELSE /\ files' = r.files
                    /\ sizeTimeIndex' =
                           IndexAppend(sizeTimeIndex, fileSizeTime(files[idx]), idx)
    /\ UNCHANGED <<cfg, envVars, call, srcDisk, pc, faults, parentIndex, poolVars, fsVars, runVars>>

\* the parent index is built between the passes
LinkParents ==
    /\ pc = "pass1"
    /\ idx > Len(files)
    /\ parentIndex' = BuildParentIndex(files, 1, <<>>)
    /\ pc' = "pass2"
    /\ idx' = 1
    /\ UNCHANGED <<cfg, envVars, call, srcDisk, faults, files, sizeTimeIndex, looked, poolVars, fsVars,
                   runVars>>

\* a sidecar that follows its parent's directory but keeps its own base name
SidecarOfParentKeepsName(f, pi, parentFile) ==
    [f EXCEPT !.ParentIndex = pi,
              !.DestDir = parentFile.DestDir,
              !.DestName = [base |-> f.SourceName.base, ext |-> f.SourceName.ext]]

\* pass 2, parent found: the destination is derived from the parent's
SidecarOfParent(f, pi, parentFile) ==
    [f EXCEPT !.ParentIndex = pi,
              !.DestDir = parentFile.DestDir,
              !.DestName = [base |-> parentFile.DestName.base,
                            ext |-> f.SourceName.ext]]

\* an orphaned sidecar that is renamed but not organized by date
OrphanSidecarFlat(c, f) ==
    [f EXCEPT !.DestDir = DestRoot, !.DestName = PlannedName(c, f)]

\* pass 2, orphaned sidecar: planned from its own timestamp
OrphanSidecar(c, f) ==
    [f EXCEPT !.DestDir = PlannedDir(c, f), !.DestName = PlannedName(c, f)]

\* one iteration of pass 2
PlanSidecar ==
    /\ pc = "pass2"
    /\ idx <= Len(files)
    /\ idx' = idx + 1
    /\ LET f == files[idx]
           action == getSidecarAction(StripDot(ToLower(f.SourceName.ext)),
                                      cfg.Sidecars, cfg.SidecarDefault)
           key == parentKey(f)
       IN IF f.MediaCategory # Sidecar THEN UNCHANGED files
          ELSE IF action = SidecarDelete
          THEN files' = [files EXCEPT ![idx].Status = StatusSidecarDeleted]
          ELSE IF key \in DOMAIN parentIndex
          THEN files' = [files EXCEPT ![idx] =
                           SidecarOfParent(f, parentIndex[key], files[parentIndex[key]])]
          ELSE files' = [files EXCEPT ![idx] = OrphanSidecar(cfg, f)]
    /\ UNCHANGED <<cfg, envVars, call, srcDisk, pc, faults, sizeTimeIndex, parentIndex, looked,
                   poolVars, fsVars, runVars>>

(***************************************************************************)
(* copyFiles: the work list, the dispatch order and the worker pool        *)
(***************************************************************************)
\* a default that is taken for negative counts only
effectiveWorkersNegativeOnly(workers) == IF workers < 0 THEN DefaultWorkers ELSE workers

effectiveWorkers(workers) == IF workers <= 0 THEN DefaultWorkers ELSE workers

\* a skip test that lets deleted sidecars into the work list
SkippedButNotDeleted(file) ==
    file.Status \in {StatusUnnamable, StatusPreExisting}

Skipped(file) ==
    file.Status \in {StatusUnnamable, StatusPreExisting, StatusSidecarDeleted}

\* a work list of every record, whatever its status
RECURSIVE WorkListOfAll(_, _)
WorkListOfAll(fs, i) ==
    IF i > Len(fs) THEN <<>> ELSE <<i>> \o WorkListOfAll(fs, i + 1)

RECURSIVE WorkList(_, _)
WorkList(fs, i) ==
    IF i > Len(fs) THEN <<>>
    ELSE IF Skipped(fs[i]) THEN WorkList(fs, i + 1)
    ELSE <<i>> \o WorkList(fs, i + 1)

RECURSIVE SumSizes(_, _)
SumSizes(fs, work) ==
    IF work = <<>> THEN 0 ELSE fs[Head(work)].Size + SumSizes(fs, Tail(work))

\* sort.Slice by size descending; for the at most 12 entries reached here Go
\* runs an insertion sort, which keeps equal sizes in work-list order
\* an insertion that loses a record as large as one already sorted
RECURSIVE InsertBySizeLosesTies(_, _, _)
InsertBySizeLosesTies(fs, sorted, i) ==
    IF sorted = <<>> THEN <<i>>
    ELSE IF fs[i].Size > fs[Head(sorted)].Size THEN <<i>> \o sorted
    ELSE IF fs[i].Size = fs[Head(sorted)].Size THEN sorted
    ELSE <<Head(sorted)>> \o InsertBySizeLosesTies(fs, Tail(sorted), i)

RECURSIVE InsertBySize(_, _, _)
InsertBySize(fs, sorted, i) ==
    IF sorted = <<>> THEN <<i>>
    ELSE IF fs[i].Size > fs[Head(sorted)].Size THEN <<i>> \o sorted
    ELSE <<Head(sorted)>> \o InsertBySize(fs, Tail(sorted), i)

RECURSIVE SortBySizeDesc(_, _, _)
SortBySizeDesc(fs, work, sorted) ==
    IF work = <<>> THEN sorted
    ELSE SortBySizeDesc(fs, Tail(work), InsertBySize(fs, sorted, Head(work)))

\* a queue in sorted order, largest first, without the interleave
InterleaveNone(work, lo, hi) == SubSeq(work, lo, hi)

\* an interleave whose loop stops as soon as the two ends meet
RECURSIVE InterleaveStopsEarly(_, _, _)
InterleaveStopsEarly(work, lo, hi) ==
    IF lo >= hi THEN <<>>
    ELSE <<work[lo], work[hi]>> \o InterleaveStopsEarly(work, lo + 1, hi - 1)

\* an interleave without the check that the ends have not crossed
RECURSIVE InterleaveUnguarded(_, _, _)
InterleaveUnguarded(work, lo, hi) ==
    IF lo > hi THEN <<>>
    ELSE <<work[lo], work[hi]>> \o InterleaveUnguarded(work, lo + 1, hi - 1)

\* take from the low end, then from the high end, until they meet
RECURSIVE Interleave(_, _, _)
Interleave(work, lo, hi) ==
    IF lo > hi THEN <<>>
    ELSE IF lo + 1 <= hi
    THEN <<work[lo], work[hi]>> \o Interleave(work, lo + 1, hi - 1)
    ELSE <<work[lo]>>

EmptyLog ==
    [opened |-> FALSE, ioerr |-> FALSE, written |-> 0, size |-> 0,
     synced |-> FALSE, closed |-> FALSE]

DestPath(file) == <<file.DestDir, file.DestName>>

\* a copyFiles that is called while pass 2 is still at work
CopyFilesStartEarly ==
    /\ pc = "pass2"
    /\ LET work == WorkList(files, 1)
           sorted == SortBySizeDesc(files, work, <<>>)
       IN /\ totalSize' = SumSizes(files, work)
          /\ IF work = <<>>
             THEN /\ pc' = "delete"
                  /\ UNCHANGED <<jobs, wpc>>
             ELSE /\ pc' = "copy"
                  /\ jobs' = Interleave(sorted, 1, Len(sorted))
                  /\ wpc' = [w \in 1..effectiveWorkers(cfg.Workers) |-> "recv"]
    /\ UNCHANGED <<cfg, envVars, call, srcDisk, faults, planVars, wjob, whandle, copyLog, copiedSize,
                   copyErrors, received, fsVars, runVars>>

\* the first part of copyFiles, up to the launch of the workers
CopyFilesStart ==
    /\ pc = "pass2"
    /\ idx > Len(files)
    /\ LET work == WorkList(files, 1)
           sorted == SortBySizeDesc(files, work, <<>>)
       IN /\ totalSize' = SumSizes(files, work)
          /\ IF work = <<>>
             THEN /\ pc' = "delete"
                  /\ UNCHANGED <<jobs, wpc>>
             ELSE /\ pc' = "copy"
                  /\ jobs' = Interleave(sorted, 1, Len(sorted))
                  /\ wpc' = [w \in 1..effectiveWorkers(cfg.Workers) |-> "recv"]
    /\ UNCHANGED <<cfg, envVars, call, srcDisk, faults, planVars, wjob, whandle, copyLog, copiedSize,
                   copyErrors, received, fsVars, runVars>>

\* for i := range jobs
Receive(w) ==
    /\ pc = "copy"
    /\ wpc[w] = "recv"
    /\ IF jobs = <<>>
       THEN /\ wpc' = [wpc EXCEPT ![w] = "exit"]
            /\ UNCHANGED <<jobs, wjob, received>>
       ELSE /\ wjob' = [wjob EXCEPT ![w] = Head(jobs)]
            /\ received' = [received EXCEPT ![Head(jobs)] = @ + 1]
            /\ jobs' = Tail(jobs)
            /\ wpc' = [wpc EXCEPT ![w] = IF cfg.DryRun THEN "account" ELSE "mkdir"]
    /\ UNCHANGED <<cfg, envVars, call, srcDisk, pc, faults, planVars, whandle, copyLog, copiedSize,
                   copyErrors, totalSize, fsVars, runVars>>

\* a worker that goes on to copyFile after os.MkdirAll failed
MkdirAllThenCopy(w) ==
    /\ pc = "copy"
    /\ wpc[w] = "mkdir"
    /\ LET i == wjob[w]
       IN \/ /\ dirs' = dirs \cup {files[i].DestDir}
             /\ UNCHANGED <<files, copyErrors, faults>>
          \/ /\ files[i].DestDir \notin dirs
             /\ faults < MaxFaults
             /\ faults' = faults + 1
             /\ files' = [files EXCEPT ![i].Status = StatusDirectoryCreationFailed]
             /\ copyErrors' = Append(copyErrors, i)
             /\ UNCHANGED dirs
    /\ wpc' = [wpc EXCEPT ![w] = "open"]
    /\ UNCHANGED <<cfg, envVars, call, srcDisk, pc, sizeTimeIndex, parentIndex, idx, looked, jobs, wjob,
                   whandle, copyLog, copiedSize, totalSize, received, disk, runVars>>

\* os.MkdirAll: nil when the directory is there already
MkdirAll(w) ==
    /\ pc = "copy"
    /\ wpc[w] = "mkdir"
    /\ LET i == wjob[w]
       IN \/ /\ dirs' = dirs \cup {files[i].DestDir}
             /\ wpc' = [wpc EXCEPT ![w] = "open"]
             /\ UNCHANGED <<files, copyErrors, faults, wjob>>
          \/ /\ files[i].DestDir \notin dirs
             /\ faults < MaxFaults
             /\ faults' = faults + 1
             /\ files' = [files EXCEPT ![i].Status = StatusDirectoryCreationFailed]
             /\ copyErrors' = Append(copyErrors, i)
             /\ wpc' = [wpc EXCEPT ![w] = "recv"]
             /\ wjob' = [wjob EXCEPT ![w] = 0]
             /\ UNCHANGED dirs
    /\ UNCHANGED <<cfg, envVars, call, srcDisk, pc, sizeTimeIndex, parentIndex, idx, looked, jobs, whandle,
                   copyLog, copiedSize, totalSize, received, disk, runVars>>

\* copyFile: os.Open and Stat of the source, os.Create of the destination
OpenCreate(w) ==
    /\ pc = "copy"
    /\ wpc[w] = "open"
    /\ LET i == wjob[w]
           dst == DestPath(files[i])
           src == SourcePath(files[i])
       IN \/ /\ src \in DOMAIN srcDisk
             /\ src \notin unreadable
             /\ disk' = IF dst \in DOMAIN disk
                        THEN [disk EXCEPT ![dst].content = <<>>, ![dst].mtime = TRun]
                        ELSE disk @@ (dst :> [content |-> <<>>, gen |-> i,
                                              mtime |-> TRun])
             /\ whandle' = [whandle EXCEPT ![w] = disk'[dst].gen]
             /\ copyLog' = [copyLog EXCEPT ![i] =
                              [EmptyLog EXCEPT !.opened = TRUE,
                                               !.size = Len(srcDisk[src].content)]]
             /\ wpc' = [wpc EXCEPT ![w] = "write"]
             /\ UNCHANGED faults
          \/ /\ \/ (src \notin DOMAIN srcDisk \/ src \in unreadable) /\ UNCHANGED faults
                \/ faults < MaxFaults /\ faults' = faults + 1
             /\ copyLog' = [copyLog EXCEPT ![i] = EmptyLog]
             /\ wpc' = [wpc EXCEPT ![w] = "cleanup"]
             /\ UNCHANGED <<disk, whandle>>
    /\ UNCHANGED <<cfg, envVars, call, srcDisk, pc, planVars, jobs, wjob, copiedSize, copyErrors,
                   totalSize, received, dirs, runVars>>

\* bytes written through a handle land in the file only while its inode is
\* still the one linked at the path
WriteThrough(d, dst, gen, bytes) ==
    IF dst \in DOMAIN d /\ d[dst].gen = gen
    THEN [d EXCEPT ![dst].content =
             bytes \o SubSeq(@, Len(bytes) + 1, Len(@))]
    ELSE d

\* a copyFile that drops the error of destFile.Close()
copyFileResultCloseIgnored(ioerr, written, size, syncOk, closeOk) ==
    IF ioerr THEN "cleanup"
    ELSE IF written # size THEN "cleanup"
    ELSE IF ~syncOk THEN "cleanup"
    ELSE "finish"

\* copyFile from io.Copy to its return: nil only when io.Copy reported no
\* error, the count written equals the stat'd size, and Sync and Close
\* both succeeded
copyFileResult(ioerr, written, size, syncOk, closeOk) ==
    IF ioerr THEN "cleanup"
    ELSE IF written # size THEN "cleanup"
    ELSE IF ~syncOk THEN "cleanup"
    ELSE IF ~closeOk THEN "cleanup"
    ELSE "finish"

\* what the destination handle went through, given how far copyFile got;
\* it is kept for a job that copyFile reported as done
HandleLog(log, ioerr, written, syncOk, closeOk) ==
    LET copied == ~ioerr /\ written = log.size
    IN [log EXCEPT !.ioerr = ioerr, !.written = written,
                   !.synced = copied /\ syncOk,
                   !.closed = copied /\ syncOk /\ closeOk]

\* copyFile: io.Copy, the byte-count check, destFile.Sync(), destFile.Close()
CopyBytes(w) ==
    /\ pc = "copy"
    /\ wpc[w] = "write"
    /\ LET i == wjob[w]
           dst == DestPath(files[i])
           content == srcDisk[SourcePath(files[i])].content
       IN \E n \in 0..Len(content), ioerr, syncOk, closeOk \in BOOLEAN :
            /\ \/ n = Len(content) /\ ~ioerr /\ syncOk /\ closeOk /\ UNCHANGED faults
               \/ /\ \/ (n < Len(content) \/ ioerr) /\ syncOk /\ closeOk
                     \/ n = Len(content) /\ ~ioerr /\ ~syncOk /\ closeOk
                     \/ n = Len(content) /\ ~ioerr /\ syncOk /\ ~closeOk
                  /\ faults < MaxFaults
                  /\ faults' = faults + 1
            /\ disk' = WriteThrough(disk, dst, whandle[w], SubSeq(content, 1, n))
            /\ wroteBytes' = (wroteBytes \/ n > 0)
            /\ LET to == copyFileResult(ioerr, n, copyLog[i].size, syncOk, closeOk)
               IN /\ wpc' = [wpc EXCEPT ![w] = to]
                  /\ copyLog' = [copyLog EXCEPT ![i] =
                         IF to = "cleanup" THEN EmptyLog
                         ELSE HandleLog(copyLog[i], ioerr, n, syncOk, closeOk)]
    /\ UNCHANGED <<cfg, envVars, call, srcDisk, pc, planVars, jobs, wjob, whandle, copiedSize,
                   copyErrors, totalSize, received, dirs, second, prevFiles, ejected,
                   ret>>

\* a worker that returns, instead of continuing, after a failed copyFile
CleanupAndReturn(w) ==
    /\ pc = "copy"
    /\ wpc[w] = "cleanup"
    /\ LET i == wjob[w]
           dst == DestPath(files[i])
       IN /\ disk' = [p \in DOMAIN disk \ {dst} |-> disk[p]]
          /\ files' = [files EXCEPT ![i].Status = StatusFailed]
          /\ copyLog' = [copyLog EXCEPT ![i] = EmptyLog]
    /\ wpc' = [wpc EXCEPT ![w] = "exit"]
    /\ wjob' = [wjob EXCEPT ![w] = 0]
    /\ whandle' = [whandle EXCEPT ![w] = 0]
    /\ UNCHANGED <<cfg, envVars, call, srcDisk, pc, faults, sizeTimeIndex, parentIndex, idx, looked, jobs,
                   copiedSize, copyErrors, totalSize, received, dirs, runVars>>

\* a worker that adds the size of a job to the counter although it failed
CleanupCounted(w) ==
    /\ pc = "copy"
    /\ wpc[w] = "cleanup"
    /\ LET i == wjob[w]
           dst == DestPath(files[i])
       IN /\ disk' = [p \in DOMAIN disk \ {dst} |-> disk[p]]
          /\ files' = [files EXCEPT ![i].Status = StatusFailed]
          /\ copyLog' = [copyLog EXCEPT ![i] = EmptyLog]
          /\ copiedSize' = copiedSize + files[i].Size
    /\ wpc' = [wpc EXCEPT ![w] = "recv"]
    /\ wjob' = [wjob EXCEPT ![w] = 0]
    /\ whandle' = [whandle EXCEPT ![w] = 0]
    /\ UNCHANGED <<cfg, envVars, call, srcDisk, pc, faults, sizeTimeIndex, parentIndex, idx, looked, jobs,
                   copyErrors, totalSize, received, dirs, runVars>>

\* copyFile returned an error: os.Remove(destPath), status failed, continue
Cleanup(w) ==
    /\ pc = "copy"
    /\ wpc[w] = "cleanup"
    /\ LET i == wjob[w]
           dst == DestPath(files[i])
       IN /\ disk' = [p \in DOMAIN disk \ {dst} |-> disk[p]]
          /\ files' = [files EXCEPT ![i].Status = StatusFailed]
          /\ copyLog' = [copyLog EXCEPT ![i] = EmptyLog]
    /\ wpc' = [wpc EXCEPT ![w] = "recv"]
    /\ wjob' = [wjob EXCEPT ![w] = 0]
    /\ whandle' = [whandle EXCEPT ![w] = 0]
    /\ UNCHANGED <<cfg, envVars, call, srcDisk, pc, faults, sizeTimeIndex, parentIndex, idx, looked, jobs,
                   copiedSize, copyErrors, totalSize, received, dirs, runVars>>

\* setFileTimes: os.Chtimes sets the modification time of what is at the path
setFileTimes(d, path, modTime) ==
    IF path \in DOMAIN d THEN [d EXCEPT ![path].mtime = modTime] ELSE d

\* a worker for which a failed setFileTimes is a failed job
FinishOrFail(w) ==
    /\ pc = "copy"
    /\ wpc[w] = "finish"
    /\ LET i == wjob[w]
       IN \/ /\ files' = [files EXCEPT ![i].Status = StatusCopied]
             /\ copiedSize' = copiedSize + files[i].Size
             /\ disk' = setFileTimes(disk, DestPath(files[i]), files[i].CreationDateTime)
             /\ UNCHANGED <<faults, copyErrors>>
          \/ /\ faults < MaxFaults
             /\ faults' = faults + 1
             /\ files' = [files EXCEPT ![i].Status = StatusFailed]
             /\ copyErrors' = Append(copyErrors, i)
             /\ disk' = [p \in DOMAIN disk \ {DestPath(files[i])} |-> disk[p]]
             /\ UNCHANGED copiedSize
    /\ wpc' = [wpc EXCEPT ![w] = "recv"]
    /\ wjob' = [wjob EXCEPT ![w] = 0]
    /\ whandle' = [whandle EXCEPT ![w] = 0]
    /\ UNCHANGED <<cfg, envVars, call, srcDisk, pc, sizeTimeIndex, parentIndex, idx, looked, jobs,
                   copyLog, totalSize, received, dirs, runVars>>

\* copyFile returned nil: setFileTimes (a failure is only a warning), status
\* copied, and the job's size is added to the counter
Finish(w) ==
    /\ pc = "copy"
    /\ wpc[w] = "finish"
    /\ LET i == wjob[w]
       IN /\ files' = [files EXCEPT ![i].Status = StatusCopied]
          /\ copiedSize' = copiedSize + files[i].Size
          /\ \/ /\ disk' = setFileTimes(disk, DestPath(files[i]),
                                        files[i].CreationDateTime)
                /\ UNCHANGED faults
             \/ /\ faults < MaxFaults
                /\ faults' = faults + 1
                /\ UNCHANGED disk
    /\ wpc' = [wpc EXCEPT ![w] = "recv"]
    /\ wjob' = [wjob EXCEPT ![w] = 0]
    /\ whandle' = [whandle EXCEPT ![w] = 0]
    /\ UNCHANGED <<cfg, envVars, call, srcDisk, pc, sizeTimeIndex, parentIndex, idx, looked, jobs,
                   copyLog, copyErrors, totalSize, received, dirs, runVars>>

\* a dry-run job: only the counter moves
Account(w) ==
    /\ pc = "copy"
    /\ wpc[w] = "account"
    /\ copiedSize' = copiedSize + files[wjob[w]].Size
    /\ wpc' = [wpc EXCEPT ![w] = "recv"]
    /\ wjob' = [wjob EXCEPT ![w] = 0]
    /\ UNCHANGED <<cfg, envVars, call, srcDisk, pc, faults, planVars, jobs, whandle, copyLog,
                   copyErrors, totalSize, received, fsVars, runVars>>

\* an importMedia that goes on to deleteOriginalFiles whatever copyFiles
\* returned
CopyFilesReturnUnchecked ==
    /\ pc = "copy"
    /\ \A w \in DOMAIN wpc : wpc[w] = "exit"
    /\ pc' = "delete"
    /\ UNCHANGED <<cfg, envVars, call, srcDisk, faults, planVars, poolVars, fsVars, second,
                   prevFiles, wroteBytes, ejected, ret>>

\* wg.Wait() and the return of copyFiles, then importMedia's check of it
CopyFilesReturn ==
    /\ pc = "copy"
    /\ \A w \in DOMAIN wpc : wpc[w] = "exit"
    /\ IF Len(copyErrors) > 0
       THEN pc' = "done" /\ ret' = "error"
       ELSE pc' = "delete" /\ UNCHANGED ret
    /\ UNCHANGED <<cfg, envVars, call, srcDisk, faults, planVars, poolVars, fsVars, second,
                   prevFiles, wroteBytes, ejected>>

(***************************************************************************)
(* deleteOriginalFiles, the eject step, and the return of importMedia      *)
(***************************************************************************)
\* a deletion test that also takes the sources of failed copies
DeletableOrFailed(file) ==
    file.Status \in {StatusCopied, StatusPreExisting, StatusSidecarDeleted, StatusFailed}

Deletable(file) ==
    file.Status \in {StatusCopied, StatusPreExisting, StatusSidecarDeleted}

\* a deletion that does not ask whether the run is a dry run
deleteOriginalFilesInDryRun(fs, c, sd) ==
    IF ~c.DeleteOriginals THEN sd
    ELSE LET gone == {SourcePath(fs[i]) : i \in {j \in 1..Len(fs) : Deletable(fs[j])}}
         IN [p \in DOMAIN sd \ gone |-> sd[p]]

deleteOriginalFiles(fs, c, sd) ==
    IF ~c.DeleteOriginals \/ c.DryRun THEN sd
    ELSE LET gone == {SourcePath(fs[i]) : i \in {j \in 1..Len(fs) : Deletable(fs[j])}}
         IN [p \in DOMAIN sd \ gone |-> sd[p]]

DeleteAndEject ==
    /\ pc = "delete"
    /\ srcDisk' = deleteOriginalFiles(files, cfg, srcDisk)
    /\ ejected' = cfg.AutoEjectMacOS
    /\ ret' = "nil"
    /\ pc' = "done"
    /\ UNCHANGED <<cfg, envVars, call, faults, planVars, poolVars, fsVars, second, prevFiles,
                   wroteBytes>>


(***************************************************************************)
(* The runs: the state importMedia starts from, and the second run on the  *)
(* same source and destination.                                            *)
(***************************************************************************)
\* cfg.Sidecars of a configuration without per-extension overrides
NoOverrides == [e \in {} |-> SidecarCopy]

Configs(organizes, renames, checks, deletes, overrides, defaults, workers) ==
    [OrganizeByDate : organizes, RenameByDateTime : renames,
     ChecksumDuplicates : checks, DryRun : BOOLEAN, DeleteOriginals : deletes,
     Workers : workers, SidecarDefault : defaults,
     Sidecars : overrides, AutoEjectMacOS : {TRUE}]

\* the destination path the card's a.jpg starts from, and its n-th candidate
ProbePath(c, n) ==
    <<IF c.OrganizeByDate THEN Join(DestRoot, FormatMonth(T0)) ELSE DestRoot,
      Candidate(IF c.RenameByDateTime THEN FormatDateTime(T0) ELSE "a", ".jpg", n)>>

Old(content) == [content |-> content, gen |-> 0, mtime |-> TBefore]

\* what the destination may hold before the first run
DestTrees(c) ==
    { <<>>,
      ProbePath(c, 0) :> Old(<<1>>),
      ProbePath(c, 0) :> Old(<<2>>),
      ProbePath(c, 0) :> Old(<<7, 7>>),
      (ProbePath(c, 0) :> Old(<<2>>)) @@ (ProbePath(c, 1) :> Old(<<1>>)),
      [p \in {ProbePath(c, n) : n \in 0..MaxSuffix} |-> Old(<<7, 7, 7>>)] }

\* the configuration, the two trees, and the records enumerateFiles makes of
\* a source tree that holds one of the given numbers of files
LoadedFrom(card, configs, trees, counts) ==
    /\ cfg \in configs
    /\ \E S \in SUBSET card :
          /\ Cardinality(S) \in counts
          /\ srcDisk = SourceTree(S)
    /\ disk \in trees
    /\ dirs = {p[1] : p \in DOMAIN disk}
    /\ files = enumerateFiles(srcDisk, cfg)
    /\ sizeTimeIndex = <<>>
    /\ parentIndex = <<>>
    /\ idx = 1
    /\ jobs = <<>>
    /\ wpc = <<>>
    /\ wjob = [w \in 1..effectiveWorkers(cfg.Workers) |-> 0]
    /\ whandle = [w \in 1..effectiveWorkers(cfg.Workers) |-> 0]
    /\ copyLog = [i \in 1..Len(files) |-> EmptyLog]
    /\ copiedSize = 0
    /\ copyErrors = <<>>
    /\ totalSize = 0
    /\ received = [i \in 1..Len(files) |-> 0]
    /\ looked = {}
    /\ faults = 0
    /\ second = FALSE
    /\ prevFiles = <<>>
    /\ wroteBytes = FALSE
    /\ ejected = FALSE
    /\ ret = "running"

Loaded(configs, trees, counts) ==
    LoadedFrom(CardOfDistinctNames, configs, trees, counts)

NoCall == [ext |-> "", result |-> ""]

\* importMedia has enumerated the source tree and set every ParentIndex to -1
Start(configs, trees, maxFiles) ==
    /\ Loaded(configs, trees, 1..maxFiles)
    /\ pc = "pass1"
    /\ call = NoCall
    /\ denied = {}
    /\ unreadable = {}

\* one worker, every planning rule, every destination tree
Init ==
    \E c \in Configs(BOOLEAN, BOOLEAN, BOOLEAN, {FALSE}, {NoOverrides},
                      {SidecarDelete}, {1}) :
        Start({c}, DestTrees(c), MaxFiles)

\* cfg.Sidecars: none, or the card's .xmp sidecars deleted or ignored
SidecarOverrides ==
    { NoOverrides, [e \in {"xmp"} |-> SidecarDelete], [e \in {"xmp"} |-> SidecarIgnore] }

\* one worker, flat destination, every sidecar action, originals deleted or kept
InitDelete ==
    \E c \in Configs({FALSE}, BOOLEAN, {FALSE}, BOOLEAN, SidecarOverrides,
                      {SidecarDelete}, {1}) :
        Start({c}, DestTrees(c), MaxFiles)

SidecarActions == {SidecarIgnore, SidecarCopy, SidecarDelete}

\* extensions with a built-in action (xmp copy, thm delete) and without one
CallExts == {"xmp", "thm", "foo", "zzz"}

\* every override table over a built-in and an unknown extension
CallOverrides ==
    UNION {[D -> SidecarActions] : D \in SUBSET {"xmp", "foo"}}

\* getSidecarAction is about to be called on an extension, with any override
\* table and any global default
InitCall ==
    /\ Loaded(Configs({FALSE}, {FALSE}, {FALSE}, {FALSE}, CallOverrides,
                       SidecarActions, {1}),
              {<<>>}, {0})
    /\ pc = "call"
    /\ call \in [ext : CallExts, result : {""}]
    /\ denied = {}
    /\ unreadable = {}

\* ext, cfg.Sidecars and cfg.SidecarDefault go in, the action comes out
CallGetSidecarAction ==
    /\ pc = "call"
    /\ call.result = ""
    /\ call' = [call EXCEPT !.result =
                    getSidecarAction(call.ext, cfg.Sidecars, cfg.SidecarDefault)]
    /\ UNCHANGED <<cfg, envVars, srcDisk, pc, faults, planVars, poolVars, fsVars, runVars>>

NextCall == CallGetSidecarAction

isValidSidecarAction(action) == action \in {SidecarIgnore, SidecarCopy, SidecarDelete}

\* the check of cfg.Workers: a negative count is an error
validWorkers(c) == c.Workers >= 0

\* validateConfig: TRUE when it returns nil
validateConfig(c) ==
    /\ isValidSidecarAction(c.SidecarDefault)
    /\ \A e \in DOMAIN c.Sidecars : isValidSidecarAction(c.Sidecars[e])
    /\ validWorkers(c)

\* run: the configuration is validated, then importMedia is called
ValidateConfig ==
    /\ pc = "validate"
    /\ IF validateConfig(cfg)
       THEN pc' = "pass1" /\ UNCHANGED ret
       ELSE pc' = "done" /\ ret' = "invalid configuration"
    /\ UNCHANGED <<cfg, envVars, call, srcDisk, faults, planVars, poolVars, fsVars, second,
                   prevFiles, wroteBytes, ejected>>

\* any worker count, negative, zero or positive; the run starts in run(),
\* before validateConfig, or with a direct call of importMedia
InitRun ==
    /\ Loaded(Configs({TRUE}, {TRUE}, {TRUE}, {FALSE}, {NoOverrides}, {SidecarDelete},
                       (-1)..MaxWorkers),
              {<<>>}, 1..MaxRunFiles)
    /\ pc \in {"validate", "pass1"}
    /\ call = NoCall
    /\ denied = {}
    /\ unreadable = {}

\* the destination trees, and one whose first two candidates are occupied
PlanTrees(c) ==
    DestTrees(c) \cup
    { [p \in {ProbePath(c, n) : n \in 0..1} |-> Old(<<7, 7>>)] }

\* at most one path is out of order: a candidate whose stat is refused, or
\* a source file or a destination file that cannot be opened
PlanFaults(c) ==
    {[denied |-> {}, unreadable |-> {}]}
    \cup {[denied |-> {ProbePath(c, n)}, unreadable |-> {}] : n \in 0..MaxSuffix}
    \cup {[denied |-> {}, unreadable |-> {p}] :
             p \in DOMAIN srcDisk \cup (DOMAIN disk \cap {ProbePath(c, n) : n \in 0..1})}

\* planning alone, from any start: flat destination, the whole card
InitPlan ==
    /\ \E c \in {k \in Configs({FALSE}, BOOLEAN, BOOLEAN, {FALSE}, {NoOverrides},
                                 {SidecarDelete}, {1}) : ~k.DryRun} :
          /\ LoadedFrom(Card, {c}, PlanTrees(c), 1..MaxFiles)
          /\ \E f \in PlanFaults(c) :
                denied = f.denied /\ unreadable = f.unreadable
    /\ pc = "pass1"
    /\ call = NoCall

\* several workers, organizing and renaming by date into an empty destination
InitPool ==
    Start(Configs({TRUE}, {TRUE}, {TRUE}, {FALSE}, {NoOverrides}, {SidecarDelete},
                  1..MaxWorkers),
          {<<>>}, MaxJobs)

\* importMedia is started again on the same source and destination
Rerun ==
    /\ pc = "done"
    /\ ~second
    /\ second' = TRUE
    /\ prevFiles' = files
    /\ files' = enumerateFiles(srcDisk, cfg)
    /\ sizeTimeIndex' = <<>>
    /\ parentIndex' = <<>>
    /\ pc' = "pass1"
    /\ idx' = 1
    /\ jobs' = <<>>
    /\ wpc' = <<>>
    /\ wjob' = [w \in DOMAIN wjob |-> 0]
    /\ whandle' = [w \in DOMAIN whandle |-> 0]
    /\ copyLog' = [i \in 1..Len(files') |-> EmptyLog]
    /\ copiedSize' = 0
    /\ copyErrors' = <<>>
    /\ totalSize' = 0
    /\ received' = [i \in 1..Len(files') |-> 0]
    /\ looked' = {}
    /\ wroteBytes' = FALSE
    /\ ejected' = FALSE
    /\ ret' = "running"
    /\ UNCHANGED <<cfg, envVars, call, srcDisk, faults, fsVars>>

ReceiveJob == \E w \in DOMAIN wpc : Receive(w)
MakeDirectory == \E w \in DOMAIN wpc : MkdirAll(w)
OpenFiles == \E w \in DOMAIN wpc : OpenCreate(w)
CopyFile == \E w \in DOMAIN wpc : CopyBytes(w)
JobFailed == \E w \in DOMAIN wpc : Cleanup(w)
JobCopied == \E w \in DOMAIN wpc : Finish(w)
JobDry == \E w \in DOMAIN wpc : Account(w)

\* one run of importMedia
Next ==
    \/ PlanParent
    \/ LinkParents
    \/ PlanSidecar
    \/ CopyFilesStart
    \/ ReceiveJob
    \/ MakeDirectory
    \/ OpenFiles
    \/ CopyFile
    \/ JobFailed
    \/ JobCopied
    \/ JobDry
    \/ CopyFilesReturn
    \/ DeleteAndEject

\* importMedia run twice in a row
NextTwice == Next \/ Rerun

\* importMedia up to the call of copyFiles
NextPlan == PlanParent \/ LinkParents \/ PlanSidecar

\* run(): validateConfig, then importMedia
NextRun == ValidateConfig \/ Next

Spec == Init /\ [][Next]_vars
SpecPool == InitPool /\ [][Next]_vars
SpecTwice == Init /\ [][NextTwice]_vars
SpecDelete == InitDelete /\ [][Next]_vars
SpecCall == InitCall /\ [][NextCall]_vars
SpecRun == InitRun /\ [][NextRun]_vars
SpecPlan == InitPlan /\ [][NextPlan]_vars


(***************************************************************************)
(* Properties of a run.                                                    *)
(***************************************************************************)
Records == 1..Len(files)

\* planning is over: copyFiles has been called
Planned == pc \in {"copy", "delete", "done"}

\* record i is (or was) in the work list of copyFiles
InWorkList(i) == ~Skipped(files[i])

Occurrences(seq, x) == Cardinality({k \in DOMAIN seq : seq[k] = x})

\* C1: at the end of a run of importMedia no two distinct records with status
\* copied have the same destination directory and destination name, parents,
\* parent-linked sidecars and orphaned sidecars taken together
C1_CopiedDestinationsDistinct ==
    pc = "done" =>
        \A i, j \in Records :
            (i # j /\ files[i].Status = StatusCopied /\ files[j].Status = StatusCopied)
                => DestPath(files[i]) # DestPath(files[j])

\* C2: at every moment of the copy phase, under every interleaving of the
\* workers, a record has status copied only when copyFile for that job opened
\* the files, streamed without error exactly as many bytes as the source's
\* stat'd size, synced the destination and closed it
C2_CopiedOnlyAfterDurableCopy ==
    \A i \in Records :
        files[i].Status = StatusCopied =>
            /\ copyLog[i].opened
            /\ ~copyLog[i].ioerr
            /\ copyLog[i].written = copyLog[i].size
            /\ copyLog[i].size = Len(srcDisk[SourcePath(files[i])].content)
            /\ copyLog[i].synced
            /\ copyLog[i].closed

\* a record is copied and closed while the other worker is still streaming
C2_CopiedWhileOtherStreams ==
    /\ Len(wpc) = 2
    /\ \E i \in Records, w \in DOMAIN wpc :
          /\ files[i].Status = StatusCopied
          /\ copyLog[i].closed
          /\ copyLog[i].written = files[i].Size
          /\ wpc[w] = "write"
          /\ wjob[w] # i

\* C3 as stated: when importMedia has run twice on the same source,
\* destination and configuration without deleting originals, the second run
\* has written no bytes and every record of it ends pre-existing
C3_SecondRunAllPreExisting ==
    (second /\ pc = "done") =>
        /\ ~wroteBytes
        /\ \A i \in Records : files[i].Status = StatusPreExisting

\* every record of the first run is a media file that was imported
FirstRunImportedAll ==
    \A i \in DOMAIN prevFiles :
        /\ prevFiles[i].MediaCategory # Sidecar
        /\ prevFiles[i].Status \in {StatusCopied, StatusPreExisting}

\* C3, amended: when importMedia has run twice on the same source,
\* destination and configuration without deleting originals, every
\* non-sidecar record that ended the first run copied or pre-existing ends the
\* second run pre-existing, and when that is every record of the run the
\* second run writes no bytes
C3_SecondRunSkipsImportedMedia ==
    (second /\ pc = "done") =>
        /\ \A i \in Records :
              (/\ files[i].MediaCategory # Sidecar
               /\ prevFiles[i].Status \in {StatusCopied, StatusPreExisting})
                  => files[i].Status = StatusPreExisting
        /\ FirstRunImportedAll => ~wroteBytes

\* the second run is over, it found two files the first run had copied, and
\* it wrote nothing
C3_SecondRunFoundCopies ==
    /\ second
    /\ pc = "done"
    /\ ~wroteBytes
    /\ FirstRunImportedAll
    /\ \E i, j \in Records :
          /\ i # j
          /\ prevFiles[i].Status = StatusCopied
          /\ prevFiles[j].Status = StatusCopied
          /\ files[i].Status = StatusPreExisting
          /\ files[j].Status = StatusPreExisting

\* C4: once a job whose copyFile failed has finished, its record has status
\* failed and no file exists at the record's destination path
C4_FailedLeavesNoFile ==
    \A i \in Records :
        files[i].Status = StatusFailed => DestPath(files[i]) \notin DOMAIN disk

\* C5: copyFiles returns a non-nil error whenever a job ended in error, be it
\* a directory creation or a copyFile failure, so that importMedia goes on to
\* the delete and eject steps only when no job failed
C5_JobErrorIsReturned ==
    (/\ pc \in {"delete", "done"}
     /\ \E i \in Records :
           files[i].Status \in {StatusFailed, StatusDirectoryCreationFailed})
        => ret = "error"

\* what copyFiles leaves in a record it has attempted
Attempted == {StatusCopied, StatusFailed, StatusDirectoryCreationFailed}

\* the steps a worker takes at most before it waits for its next job
WorkerSteps(at) ==
    CASE at = "exit" -> 0
      [] at = "recv" -> 1
      [] at \in {"cleanup", "finish", "account"} -> 2
      [] at = "write" -> 3
      [] at = "open" -> 4
      [] at = "mkdir" -> 5

RECURSIVE SumSteps(_)
SumSteps(ats) ==
    IF ats = <<>> THEN 0 ELSE WorkerSteps(Head(ats)) + SumSteps(Tail(ats))

PhaseRank ==
    CASE pc = "pass1" -> 4
      [] pc = "pass2" -> 3
      [] pc = "copy" -> 2
      [] pc = "delete" -> 1
      [] pc = "done" -> 0

\* a bound on the steps a run has left: five per job on the channel, and
\* what each worker needs to get through the job it holds
StepsLeft ==
    PhaseRank * (5 * (Len(files) + Len(wjob)) + 1)
      + (IF pc \in {"pass1", "pass2"} THEN Len(files) + 1 - idx
         ELSE IF pc = "copy" THEN 5 * Len(jobs) + SumSteps(wpc)
         ELSE 0)

\* C6: a failing job never stops the pool: for every work list and every
\* worker count, larger than the job count included, the run comes to its
\* end (before the end some step can always be taken, and every step lowers
\* the bound on the steps left), and at the end of a non-dry run every
\* record of the work list has been received by a worker once and holds one
\* of copied, failed and directory creation failed
C6_PoolFinishesEveryJob ==
    /\ [](pc # "done" => ENABLED Next)
    /\ [][StepsLeft' < StepsLeft]_vars
    /\ []((pc = "done" /\ ~cfg.DryRun) =>
             \A i \in Records :
                 InWorkList(i) => received[i] = 1 /\ files[i].Status \in Attempted)

\* the run ended with one job failed and another one copied
C6_FailedAndCopied ==
    /\ pc = "done"
    /\ ~cfg.DryRun
    /\ \A i \in Records : InWorkList(i) /\ received[i] = 1
    /\ \E i, j \in Records :
          /\ files[i].Status \in {StatusFailed, StatusDirectoryCreationFailed}
          /\ files[j].Status = StatusCopied

WorkListDestinationsDistinct ==
    \A i, j \in Records :
        (i # j /\ InWorkList(i) /\ InWorkList(j))
            => DestPath(files[i]) # DestPath(files[j])

\* C7: for every worker count and every work list whose sources can be read
\* and whose destinations are pairwise distinct and can be written, every
\* interleaving of the workers ends with each record of the work list copied
\* and its destination holding the bytes of its source
C7_AllCopiedAndIdentical ==
    (pc = "done" /\ ~cfg.DryRun /\ faults = 0 /\ WorkListDestinationsDistinct) =>
        \A i \in Records :
            InWorkList(i) =>
                /\ files[i].Status = StatusCopied
                /\ DestPath(files[i]) \in DOMAIN disk
                /\ disk[DestPath(files[i])].content
                       = srcDisk[SourcePath(files[i])].content

\* two workers have copied two files of different content to two places
C7_TwoWorkersCopiedTwo ==
    /\ pc = "done"
    /\ Len(wpc) = 2
    /\ faults = 0
    /\ WorkListDestinationsDistinct
    /\ \E i, j \in Records :
          /\ i # j
          /\ files[i].Status = StatusCopied
          /\ files[j].Status = StatusCopied
          /\ disk[DestPath(files[i])].content = srcDisk[SourcePath(files[i])].content
          /\ disk[DestPath(files[j])].content = srcDisk[SourcePath(files[j])].content
          /\ disk[DestPath(files[i])].content # disk[DestPath(files[j])].content

\* C8: each index of the work list is placed on the job channel exactly once
\* and received by exactly one worker: what is still on the channel and what
\* has been received add up to one per work-list record and none for any
\* other, and no two workers hold the same record at the same time
C8_EachIndexDispatchedOnce ==
    Planned =>
        /\ \A i \in Records :
              Occurrences(jobs, i) + received[i] = IF InWorkList(i) THEN 1 ELSE 0
        /\ \A v, w \in DOMAIN wjob :
              (v # w /\ wjob[v] # 0) => wjob[v] # wjob[w]

\* two workers are each copying a record of their own
C8_TwoWorkersTwoRecords ==
    /\ pc = "copy"
    /\ Len(wpc) = 2
    /\ wjob[1] # 0
    /\ wjob[2] # 0
    /\ wjob[1] # wjob[2]
    /\ received[wjob[1]] = 1
    /\ received[wjob[2]] = 1

\* C9: after planning, every sidecar with a parent link has the parent
\* record's destination directory, and the parent's destination name with
\* only the extension replaced by the sidecar's own source extension,
\* whatever the parent's outcome
C9_SidecarFollowsParent ==
    Planned =>
        \A i \in Records :
            (files[i].MediaCategory = Sidecar /\ files[i].ParentIndex # NoParent) =>
                LET parentFile == files[files[i].ParentIndex]
                IN /\ files[i].DestDir = parentFile.DestDir
                   /\ files[i].DestName.base = parentFile.DestName.base
                   /\ files[i].DestName.ext = files[i].SourceName.ext

\* a parent forced to 20240101_120000_001.jpg took its sidecar along
C9_SidecarOfRenamedParent ==
    \E i \in Records :
        /\ files[i].MediaCategory = Sidecar
        /\ files[i].ParentIndex # NoParent
        /\ files[i].Status = StatusCopied
        /\ files[files[i].ParentIndex].Status = StatusCopied
        /\ files[files[i].ParentIndex].DestName
               = [base |-> "20240101_120000_001", ext |-> ".jpg"]
        /\ files[i].DestName = [base |-> "20240101_120000_001", ext |-> ".xmp"]
        /\ files[i].DestDir = files[files[i].ParentIndex].DestDir

\* record i is a sidecar with action copy and no media file of the same
\* source directory has its lowercased base name
OrphanCopySidecar(i) ==
    /\ files[i].MediaCategory = Sidecar
    /\ getSidecarAction(StripDot(ToLower(files[i].SourceName.ext)),
                        cfg.Sidecars, cfg.SidecarDefault) = SidecarCopy
    /\ ~\E j \in Records :
          /\ files[j].MediaCategory # Sidecar
          /\ files[j].SourceDir = files[i].SourceDir
          /\ ToLower(files[j].SourceName.base) = ToLower(files[i].SourceName.base)

\* C10: after planning, an orphaned sidecar with action copy has ParentIndex
\* -1, a destination made from its own timestamp by the organize-by-date and
\* rename-by-date-time rules, was never looked up in nor appended to the
\* duplicate index, and is in the work list; at the end of a run that is not
\* a dry run it has been dispatched once, and it is copied unless an I/O
\* fault made its job fail
C10_OrphanSidecarPlannedAlone ==
    Planned =>
        \A i \in Records :
            OrphanCopySidecar(i) =>
                /\ files[i].ParentIndex = NoParent
                /\ files[i].DestDir =
                       IF cfg.OrganizeByDate
                       THEN Join(DestRoot, FormatMonth(files[i].CreationDateTime))
                       ELSE DestRoot
                /\ files[i].DestName =
                       IF cfg.RenameByDateTime
                       THEN [base |-> FormatDateTime(files[i].CreationDateTime),
                             ext |-> files[i].SourceName.ext]
                       ELSE files[i].SourceName
                /\ i \notin looked
                /\ \A k \in DOMAIN sizeTimeIndex : Occurrences(sizeTimeIndex[k], i) = 0
                /\ InWorkList(i)
                /\ (pc = "done" /\ ~cfg.DryRun) =>
                       /\ received[i] = 1
                       /\ files[i].Status \in Attempted
                       /\ faults = 0 => files[i].Status = StatusCopied

\* an orphaned sidecar was organized and renamed by its own date and copied,
\* next to a media file of another month that went through the index
C10_OrphanCopiedByOwnDate ==
    /\ pc = "done"
    /\ cfg.OrganizeByDate
    /\ cfg.RenameByDateTime
    /\ \E i, j \in Records :
          /\ OrphanCopySidecar(i)
          /\ files[i].Status = StatusCopied
          /\ files[i].DestDir = Join(DestRoot, "2024/02")
          /\ files[i].DestName = [base |-> "20240203_090000", ext |-> ".xmp"]
          /\ DestPath(files[i]) \in DOMAIN disk
          /\ j \in looked
          /\ files[j].DestDir = Join(DestRoot, "2024/01")


(***************************************************************************)
(* Sidecars whose resolved action is delete or ignore                      *)
(***************************************************************************)
\* the action the configuration resolves for a source file name
ActionOfName(name) ==
    getSidecarAction(StripDot(ToLower(name.ext)), cfg.Sidecars, cfg.SidecarDefault)

DeleteSidecar(i) ==
    files[i].MediaCategory = Sidecar /\ ActionOfName(files[i].SourceName) = SidecarDelete

\* deleteOriginalFiles has run with DeleteOriginals set, outside dry run
OriginalsDeleted ==
    pc = "done" /\ ret = "nil" /\ cfg.DeleteOriginals /\ ~cfg.DryRun

\* C11: a sidecar whose resolved action is delete has the status sidecar
\* deleted once planning is over, with or without a parent among the
\* records; it gets no destination, no worker ever receives it or opens a
\* file for it, and once deleteOriginalFiles has run with DeleteOriginals
\* set its source file is gone.
C11_DeletedSidecarNeverCopied ==
    \A i \in Records :
        DeleteSidecar(i) =>
            /\ Planned => files[i].Status = StatusSidecarDeleted
            /\ files[i].DestName = NoName
            /\ received[i] = 0
            /\ copyLog[i] = EmptyLog
            /\ OriginalsDeleted => SourcePath(files[i]) \notin DOMAIN srcDisk

\* a deleted sidecar with a copied parent, and one without a parent, both
\* removed from the source
C11_DeletedSidecarsRemoved ==
    /\ OriginalsDeleted
    /\ \E i, j \in Records :
          /\ DeleteSidecar(i) /\ DeleteSidecar(j)
          /\ parentKey(files[i]) \in DOMAIN parentIndex
          /\ files[parentIndex[parentKey(files[i])]].Status = StatusCopied
          /\ parentKey(files[j]) \notin DOMAIN parentIndex
          /\ SourcePath(files[i]) \notin DOMAIN srcDisk
          /\ SourcePath(files[j]) \notin DOMAIN srcDisk

\* a file name enumerateFiles drops: a sidecar extension whose action is ignore
IgnoredName(name) ==
    /\ getMediaTypeInfo(name).MediaCategory = ""
    /\ isSidecarExtension(StripDot(ToLower(name.ext)))
    /\ ActionOfName(name) = SidecarIgnore

\* C12: a sidecar whose resolved action is ignore never has a record, no
\* file of its name is ever at the destination, and no step of the run
\* removes or changes its source file, DeleteOriginals set or not.
C12_IgnoredSidecarUntouched ==
    /\ [](\A i \in Records : ~IgnoredName(files[i].SourceName))
    /\ [](\A p \in DOMAIN disk : ~IgnoredName(p[2]))
    /\ [][\A p \in DOMAIN srcDisk :
             IgnoredName(p[2]) => p \in DOMAIN srcDisk' /\ srcDisk'[p] = srcDisk[p]]_vars

\* the originals were deleted: the parent of an ignored sidecar is gone from
\* the source and the sidecar is still there
C12_IgnoredSidecarLeftBehind ==
    /\ OriginalsDeleted
    /\ \E p \in DOMAIN srcDisk : IgnoredName(p[2])
    /\ \E i \in Records :
          /\ files[i].Status = StatusCopied
          /\ SourcePath(files[i]) \notin DOMAIN srcDisk
          /\ <<files[i].SourceDir, [base |-> files[i].SourceName.base, ext |-> ".xmp"]>>
                 \in DOMAIN srcDisk

(***************************************************************************)
(* getSidecarAction                                                        *)
(***************************************************************************)
Returned == pc = "call" /\ call.result # ""

\* C13: getSidecarAction returns the override of the extension when the
\* override table has one, else the built-in default of the extension when
\* there is one, else the global default; so an override wins over a
\* built-in default.
C13_OverrideThenBuiltInThenDefault ==
    Returned =>
        /\ call.ext \in DOMAIN cfg.Sidecars => call.result = cfg.Sidecars[call.ext]
        /\ call.ext \notin DOMAIN cfg.Sidecars /\ call.ext \in DOMAIN sidecarDefaults
              => call.result = sidecarDefaults[call.ext]
        /\ call.ext \notin DOMAIN cfg.Sidecars /\ call.ext \notin DOMAIN sidecarDefaults
              => call.result = cfg.SidecarDefault

\* xmp, copied by the built-in table, is overridden to delete and resolves
\* to delete
C13_OverrideBeatsBuiltIn ==
    /\ Returned
    /\ call.ext = "xmp"
    /\ sidecarDefaults["xmp"] = SidecarCopy
    /\ "xmp" \in DOMAIN cfg.Sidecars
    /\ cfg.Sidecars["xmp"] = SidecarDelete
    /\ call.result = SidecarDelete

(***************************************************************************)
(* deleteOriginalFiles and the eject step                                  *)
(***************************************************************************)
\* C14: a step removes a source file only if DeleteOriginals is set, the run
\* is not a dry run and the file is the source of a record whose status is
\* copied, pre-existing or sidecar deleted; the source of a record that is
\* failed, unnamable, directory creation failed or without a status stays.
C14_OnlyImportedSourcesRemoved ==
    [][/\ \A p \in DOMAIN srcDisk \ DOMAIN srcDisk' :
             /\ cfg.DeleteOriginals
             /\ ~cfg.DryRun
             /\ \E i \in Records :
                   /\ SourcePath(files[i]) = p
                   /\ files[i].Status \in {StatusCopied, StatusPreExisting,
                                            StatusSidecarDeleted}
        /\ \A i \in Records :
             /\ files[i].Status \in {StatusFailed, StatusUnnamable,
                                      StatusDirectoryCreationFailed, StatusNone}
             /\ SourcePath(files[i]) \in DOMAIN srcDisk
             => SourcePath(files[i]) \in DOMAIN srcDisk']_vars

\* the originals were deleted: the source of a copied record is gone, those
\* of a failed and of an unnamable record are still there
C14_CopiedGoneFailedKept ==
    /\ OriginalsDeleted
    /\ \E i, j, k \in Records :
          /\ files[i].Status = StatusCopied
          /\ SourcePath(files[i]) \notin DOMAIN srcDisk
          /\ files[j].Status = StatusFailed
          /\ SourcePath(files[j]) \in DOMAIN srcDisk
          /\ files[k].Status = StatusUnnamable
          /\ SourcePath(files[k]) \in DOMAIN srcDisk

\* C15: in a run where some record ends with status failed or directory
\* creation failed, the eject step is not invoked.
C15_NoEjectAfterCopyError ==
    (/\ pc = "done"
     /\ \E i \in Records :
           files[i].Status \in {StatusFailed, StatusDirectoryCreationFailed})
    => ~ejected

(***************************************************************************)
(* Dry run, and the records copyFiles skips                                *)
(***************************************************************************)
\* copyFiles is running: from its call after pass 2 to its return
InCopyFiles == pc = "copy" \/ (pc = "pass2" /\ idx > Len(files))

StatusesKept == \A i \in Records : files'[i].Status = files[i].Status

\* C16: in a dry run no step of copyFiles creates a directory or changes a
\* destination file (its presence, content or modification time) or a
\* record's status; deleteOriginalFiles removes no source file; and no
\* record ever has the status copied.
C16_DryRunChangesNothing ==
    /\ [][cfg.DryRun /\ InCopyFiles =>
             dirs' = dirs /\ disk' = disk /\ StatusesKept]_vars
    /\ [][cfg.DryRun /\ pc = "delete" => srcDisk' = srcDisk /\ StatusesKept]_vars
    /\ [](cfg.DryRun => \A i \in Records : files[i].Status # StatusCopied)

\* a dry run with DeleteOriginals set is over: a worker went through a job,
\* the record has no status, and the sources of a pre-existing record and of
\* the job are still there
C16_DryRunWentThroughJob ==
    /\ cfg.DryRun /\ cfg.DeleteOriginals
    /\ pc = "done"
    /\ copiedSize = totalSize
    /\ \E i, j \in Records :
          /\ received[i] = 1
          /\ files[i].Status = StatusNone
          /\ SourcePath(files[i]) \in DOMAIN srcDisk
          /\ files[j].Status = StatusPreExisting
          /\ SourcePath(files[j]) \in DOMAIN srcDisk

SkippedOnEntry(i) ==
    files[i].Status \in {StatusUnnamable, StatusPreExisting, StatusSidecarDeleted}

\* the sizes of the records in S added up
RECURSIVE SizeOf(_)
SizeOf(S) ==
    IF S = {} THEN 0
    ELSE LET i == CHOOSE j \in S : TRUE IN files[i].Size + SizeOf(S \ {i})

\* C17: a record that is unnamable, pre-existing or sidecar deleted keeps
\* its status through copyFiles, is never received by a worker, has no
\* file opened or created for it, and its size is not part of totalSize;
\* when every record is one of these copyFiles returns nil at once: no
\* directory, no file, no job queue and no worker.
C17_SkippedRecordsUntouched ==
    /\ [][InCopyFiles =>
             \A i \in Records : SkippedOnEntry(i) => files'[i].Status = files[i].Status]_vars
    /\ [](\A i \in Records :
             SkippedOnEntry(i) =>
                 /\ received[i] = 0
                 /\ copyLog[i] = EmptyLog
                 /\ \A p \in DOMAIN disk : disk[p].gen # i)
    /\ [](Planned => totalSize = SizeOf({i \in Records : ~SkippedOnEntry(i)}))
    /\ [][InCopyFiles /\ (\A i \in Records : SkippedOnEntry(i)) =>
             /\ pc' = "delete"
             /\ dirs' = dirs /\ disk' = disk
             /\ jobs' = <<>> /\ wpc' = <<>> /\ copyErrors' = <<>>]_vars

\* copyFiles has returned at once: a pre-existing picture and a deleted
\* sidecar were the only records
C17_EveryRecordSkipped ==
    /\ pc = "delete"
    /\ wpc = <<>>
    /\ totalSize = 0
    /\ \A i \in Records : SkippedOnEntry(i)
    /\ \E i, j \in Records :
          files[i].Status = StatusPreExisting /\ files[j].Status = StatusSidecarDeleted

(***************************************************************************)
(* The resolver out of candidates                                          *)
(***************************************************************************)
\* the extension the resolver gives the candidates of record i
ResolverExt(i) ==
    LET newExt == getFirstExtensionForFileType(files[i].FileType)
    IN IF cfg.RenameByDateTime /\ newExt # "" THEN "." \o newExt
       ELSE PlannedName(cfg, files[i]).ext

CandidateName(i, n) == Candidate(PlannedName(cfg, files[i]).base, ResolverExt(i), n)

CandidatePath(i, n) == <<PlannedDir(cfg, files[i]), CandidateName(i, n)>>

\* candidate n of record i is taken, by a destination file or by the name
\* of an earlier record, and no destination file there is a duplicate of
\* the record: same size and, when checksums are compared, same content
OccupiedByOther(i, n) ==
    LET path == CandidatePath(i, n)
    IN /\ \/ path \in DOMAIN disk
          \/ \E j \in 1..(i - 1) :
                files[j].DestDir = path[1] /\ files[j].DestName = path[2]
       /\ path \in DOMAIN disk =>
             \/ Len(disk[path].content) # files[i].Size
             \/ /\ cfg.ChecksumDuplicates
                /\ disk[path].content # srcDisk[SourcePath(files[i])].content

\* pass 1 is about to plan record idx, and all its candidates are occupied
Exhausted ==
    /\ pc = "pass1"
    /\ idx <= Len(files)
    /\ files[idx].MediaCategory # Sidecar
    /\ \A n \in 0..MaxSuffix : OccupiedByOther(idx, n)

InIndex(i) ==
    \E key \in DOMAIN sizeTimeIndex : Contains(sizeTimeIndex[key], i)

\* an earlier record of the run, kept in the index, has the size and the
\* timestamp of record i and, when checksums are compared, its content
DuplicateOfEarlier(i) ==
    \E j \in 1..(i - 1) :
        /\ InIndex(j)
        /\ files[j].Size = files[i].Size
        /\ files[j].CreationDateTime = files[i].CreationDateTime
        /\ cfg.ChecksumDuplicates =>
              srcDisk[SourcePath(files[j])].content = srcDisk[SourcePath(files[i])].content

\* pass 1 gives record idx the status unnamable, leaves the index alone and
\* moves on to the next record
PlannedUnnamable ==
    /\ files'[idx].Status = StatusUnnamable
    /\ sizeTimeIndex' = sizeTimeIndex
    /\ pc' = "pass1" /\ idx' = idx + 1

\* an unnamable record is not in the index, was never received by a worker,
\* and no file was opened or created for it
UnnamableUntouched ==
    \A i \in Records :
        files[i].Status = StatusUnnamable =>
            /\ ~InIndex(i)
            /\ received[i] = 0
            /\ copyLog[i] = EmptyLog
            /\ \A p \in DOMAIN disk : disk[p].gen # i

\* at the end of a run that is not a dry run every record has a status
RunSettledAll ==
    pc = "done" /\ ~cfg.DryRun => \A j \in Records : files[j].Status # StatusNone

\* C18 as stated: when the initial name and every suffixed candidate up to
\* MaxSuffix are occupied by non-duplicates, planning the record sets its
\* status to unnamable and adds nothing to the duplicate index; an
\* unnamable record has no file written; the run goes on with the others.
C18_ExhaustedIsUnnamable ==
    /\ [][Exhausted => PlannedUnnamable]_vars
    /\ []UnnamableUntouched
    /\ []RunSettledAll

\* C18, amended: the same for a record that is not a duplicate of an
\* earlier record of the run, which the resolver asks before it looks at
\* any candidate: then planning sets the status to unnamable and adds
\* nothing to the index, an unnamable record is never in the index, never
\* received by a worker and has no file opened or created, and at the end
\* of a run that is not a dry run every other record has a status.
C18_ExhaustedNewIsUnnamable ==
    /\ [][Exhausted /\ ~DuplicateOfEarlier(idx) => PlannedUnnamable]_vars
    /\ []UnnamableUntouched
    /\ []RunSettledAll

\* a run is over with an unnamable record, nothing written for it, and
\* another record planned after it and copied
C18_UnnamableAndCopied ==
    /\ pc = "done"
    /\ \E i, j \in Records :
          /\ i < j
          /\ files[i].Status = StatusUnnamable
          /\ files[i].DestName = NoName
          /\ received[i] = 0
          /\ files[j].Status = StatusCopied
          /\ DestPath(files[j]) \in DOMAIN disk

(***************************************************************************)
(* Terminal statuses                                                       *)
(***************************************************************************)
TerminalStatuses ==
    {StatusCopied, StatusPreExisting, StatusFailed, StatusUnnamable,
     StatusDirectoryCreationFailed, StatusSidecarDeleted}

\* copyFiles has returned
CopyPhaseOver == pc \in {"delete", "done"}

\* C19: once the copy phase of a run that is not a dry run is over, every
\* record has one of the six terminal statuses; and no step of the run
\* changes a status that is one of the six.
C19_TerminalStatusesFinal ==
    /\ [](CopyPhaseOver /\ ~cfg.DryRun =>
             \A i \in Records : files[i].Status \in TerminalStatuses)
    /\ [][\A i \in Records :
             files[i].Status \in TerminalStatuses =>
                 files'[i].Status = files[i].Status]_vars

\* the copy phase is over with a status from pass 1, one from pass 2 and
\* one from a worker
C19_StatusFromEveryPhase ==
    /\ CopyPhaseOver /\ ~cfg.DryRun
    /\ \E i, j, k \in Records :
          /\ files[i].Status = StatusPreExisting
          /\ files[j].Status = StatusSidecarDeleted
          /\ files[k].Status = StatusDirectoryCreationFailed

Resolved(i) ==
    /\ files[i].MediaCategory # Sidecar
    /\ pc # "pass1" \/ i < idx

\* the resolver gave record i a name to be written
Accepted(i) ==
    Resolved(i) /\ files[i].Status = StatusNone /\ files[i].DestName # NoName

\* C21: a name the resolver accepted for record i as a name to be written
\* is the name of no file at the destination and the destination name of
\* no earlier record in the same destination directory.
C21_AcceptedNameIsFree ==
    \A i \in Records :
        Accepted(i) =>
            /\ DestPath(files[i]) \notin DOMAIN disk
            /\ \A j \in 1..(i - 1) :
                  ~(/\ files[j].DestDir = files[i].DestDir
                    /\ files[j].DestName = files[i].DestName)

\* a record got the suffix _001 because its initial name, free at the
\* destination, was the name of an earlier record
C21_NameTakenByEarlierRecord ==
    /\ pc = "pass2"
    /\ \E i \in Records :
          /\ Accepted(i)
          /\ files[i].DestName = CandidateName(i, 1)
          /\ CandidatePath(i, 0) \notin DOMAIN disk
          /\ \E j \in 1..(i - 1) :
                /\ Accepted(j)
                /\ DestPath(files[j]) = CandidatePath(i, 0)

\* the suffixes in the order of the loop, as they are spelled
SuffixText == <<"_001", "_002", "_003", "_004">>

\* candidate n of record i as the claim spells it: the suffix goes between
\* the base name and the extension
ExpectedName(i, n) ==
    LET b == PlannedName(cfg, files[i]).base
    IN [base |-> IF n = 0 THEN b ELSE b \o SuffixText[n], ext |-> ResolverExt(i)]

\* nothing is at candidate n of record i, on disk or among earlier records
FreeCandidate(i, n) ==
    /\ <<PlannedDir(cfg, files[i]), ExpectedName(i, n)>> \notin DOMAIN disk
    /\ \A j \in 1..(i - 1) :
          ~(/\ files[j].DestDir = PlannedDir(cfg, files[i])
            /\ files[j].DestName = ExpectedName(i, n))

\* the file at candidate n of record i is a duplicate of its source
DuplicateOnDisk(i, n) ==
    LET path == <<PlannedDir(cfg, files[i]), ExpectedName(i, n)>>
    IN /\ path \in DOMAIN disk
       /\ Len(disk[path].content) = files[i].Size
       /\ cfg.ChecksumDuplicates =>
             disk[path].content = srcDisk[SourcePath(files[i])].content

\* C22: a record that is no duplicate of an earlier record and that the
\* resolver gave a name has candidate number n for some n: the initial name
\* for n = 0, else the base name, the suffix _001, _002, ... and then the
\* extension; every candidate below n is occupied by a non-duplicate;
\* candidate n is free when the record is to be written and an on-disk
\* duplicate when the record is pre-existing.
C22_FirstFreeOrDuplicateCandidate ==
    \A i \in Records :
        /\ Resolved(i)
        /\ files[i].Status \in {StatusNone, StatusPreExisting}
        /\ ~DuplicateOfEarlier(i)
        => \E n \in 0..MaxSuffix :
              /\ files[i].DestName = ExpectedName(i, n)
              /\ \A m \in 0..(n - 1) : OccupiedByOther(i, m)
              /\ files[i].Status = StatusNone => FreeCandidate(i, n)
              /\ files[i].Status = StatusPreExisting => DuplicateOnDisk(i, n)

\* the initial name and _001 are occupied by other files and the record
\* got _002
C22_SecondSuffixTaken ==
    /\ pc = "pass2"
    /\ \E i \in Records :
          /\ Accepted(i)
          /\ files[i].DestName = ExpectedName(i, 2)
          /\ CandidatePath(i, 0) \in DOMAIN disk
          /\ CandidatePath(i, 1) \in DOMAIN disk

(***************************************************************************)
(* C23: the index answers before the destination is looked at              *)
(***************************************************************************)
\* the index holds the (size, timestamp) key of record i
KeyInIndex(i) == fileSizeTime(files[i]) \in DOMAIN sizeTimeIndex

\* C23: when pass 1 resolves a record whose (size, timestamp) key is in
\* the index and checksums are not compared, the record leaves the step
\* pre-existing, its DestName is the initial name with the resolver's
\* extension, and no stat of a destination path was made for it: whatever
\* is at the destination, or fails there, makes no difference.
C23_IndexedKeyIsPreExistingUnprobed ==
    [][(/\ pc = "pass1"
        /\ idx <= Len(files)
        /\ files[idx].MediaCategory # Sidecar
        /\ ~cfg.ChecksumDuplicates
        /\ KeyInIndex(idx))
       => /\ files'[idx].Status = StatusPreExisting
          /\ files'[idx].DestName = ExpectedName(idx, 0)
          /\ files'[idx].Stats = 0
          /\ sizeTimeIndex' = IndexAppend(sizeTimeIndex, fileSizeTime(files[idx]), idx)]_vars

\* a record was marked pre-existing from the index alone although a stat of
\* its initial name would have failed
C23_PreExistingWhereStatFails ==
    \E i \in Records :
        /\ Resolved(i)
        /\ ~cfg.ChecksumDuplicates
        /\ files[i].Status = StatusPreExisting
        /\ files[i].Stats = 0
        /\ <<files[i].DestDir, files[i].DestName>> \in denied

(***************************************************************************)
(* C24: the grounds on which a record is pre-existing                      *)
(***************************************************************************)
\* the checksums of a source file and of a destination file were both
\* computed and are equal
SameChecksum(srcPath, destPath) ==
    LET src == calculateXXHash(srcDisk, srcPath)
        dst == calculateXXHash(disk, destPath)
    IN ~src.err /\ ~dst.err /\ src.sum = dst.sum

\* an earlier record kept in the index has the (size, timestamp) key of
\* record i and, when checksums are compared, its checksum
GroundInIndex(i) ==
    \E j \in 1..(i - 1) :
        /\ InIndex(j)
        /\ fileSizeTime(files[j]) = fileSizeTime(files[i])
        /\ cfg.ChecksumDuplicates =>
              LET a == calculateXXHash(srcDisk, SourcePath(files[i]))
                  b == calculateXXHash(srcDisk, SourcePath(files[j]))
              IN ~a.err /\ ~b.err /\ a.sum = b.sum

\* the name of record i is one of its candidates and the destination file
\* of that name has the record's size and, when checksums are compared, its
\* checksum
GroundOnDisk(i) ==
    \E n \in 0..MaxSuffix :
        LET path == <<PlannedDir(cfg, files[i]), ExpectedName(i, n)>>
        IN /\ files[i].DestName = ExpectedName(i, n)
           /\ path \in DOMAIN disk
           /\ Len(disk[path].content) = files[i].Size
           /\ cfg.ChecksumDuplicates => SameChecksum(SourcePath(files[i]), path)

\* the same, and without checksums the destination file also has the
\* record's timestamp
GroundOnDiskTimed(i) ==
    /\ GroundOnDisk(i)
    /\ ~cfg.ChecksumDuplicates =>
          disk[<<files[i].DestDir, files[i].DestName>>].mtime = files[i].CreationDateTime

\* the non-sidecar records that planning left pre-existing
PlannedPreExisting ==
    {i \in Records : files[i].MediaCategory # Sidecar /\ files[i].Status = StatusPreExisting}

IndexEntries(i) ==
    Cardinality({e \in {<<key, k>> : key \in DOMAIN sizeTimeIndex, k \in 1..MaxFiles + 1} :
                    /\ e[2] \in DOMAIN sizeTimeIndex[e[1]]
                    /\ sizeTimeIndex[e[1]][e[2]] = i})

\* the resolver returned for record i without an error
ResolvedWithoutError(i) ==
    Resolved(i) /\ files[i].Status \in {StatusNone, StatusPreExisting}

\* what holds of the index in every state of planning
IndexHoldsTheResolved ==
    /\ \A i \in Records :
          IF ResolvedWithoutError(i)
          THEN /\ IndexEntries(i) = 1
               /\ fileSizeTime(files[i]) \in DOMAIN sizeTimeIndex
               /\ Contains(sizeTimeIndex[fileSizeTime(files[i])], i)
          ELSE IndexEntries(i) = 0
    /\ \A key \in DOMAIN sizeTimeIndex :
          \A k \in DOMAIN sizeTimeIndex[key] :
             /\ sizeTimeIndex[key][k] \in Records
             /\ pc = "pass1" => sizeTimeIndex[key][k] < idx

\* what holds of the index from one state to the next
IndexOnlyGrows ==
    \A key \in DOMAIN sizeTimeIndex :
        /\ key \in DOMAIN sizeTimeIndex'
        /\ Len(sizeTimeIndex'[key]) >= Len(sizeTimeIndex[key])
        /\ \A k \in DOMAIN sizeTimeIndex[key] :
              sizeTimeIndex'[key][k] = sizeTimeIndex[key][k]

\* C25: during planning every non-sidecar record for which the resolver
\* returned without error is in the index exactly once, under its own
\* (size, timestamp) key, as soon as the step that resolved it is over;
\* records that are unnamable, sidecars and records not yet resolved are
\* not in it; every entry is the index of a record before the one being
\* resolved; and no step removes or changes an entry.
C25_IndexOnlyGrows ==
    /\ [](IndexHoldsTheResolved)
    /\ [][IndexOnlyGrows]_vars

\* a key of the index lists two records while another record, unnamable,
\* is listed nowhere
C25_TwoUnderOneKeyOneLeftOut ==
    /\ \E key \in DOMAIN sizeTimeIndex : Len(sizeTimeIndex[key]) = 2
    /\ \E i \in Records :
          Resolved(i) /\ files[i].Status = StatusUnnamable /\ IndexEntries(i) = 0

(***************************************************************************)
(* C26: the source checksum of a record is computed once                   *)
(***************************************************************************)
\* what holds of the checksum caches in every state
ChecksumStoredOnce ==
    \A i \in Records :
        /\ files[i].SourceChecksum # NoChecksum =>
              /\ files[i].Hashed = 1
              /\ files[i].SourceChecksum = XXHash(srcDisk[SourcePath(files[i])].content)
        /\ SourcePath(files[i]) \notin unreadable => files[i].Hashed <= 1

\* what holds of them from one state to the next
ChecksumReused ==
    \A i \in Records :
        files[i].SourceChecksum # NoChecksum =>
            /\ files'[i].SourceChecksum = files[i].SourceChecksum
            /\ files'[i].Hashed = files[i].Hashed

\* C26: a record whose SourceChecksum is set has had calculateXXHash called
\* on its source exactly once, and a readable source never more than once;
\* once the checksum is stored, no later step calls calculateXXHash on that
\* source or changes the stored value, whichever duplicate check the record
\* takes part in.
C26_SourceChecksumComputedOnce ==
    /\ [](ChecksumStoredOnce)
    /\ [][ChecksumReused]_vars

\* the checksum of record j was needed twice, against the destination file
\* of its size at its initial name and as an indexed record against a later
\* record i of its key, and was computed once
C26_ChecksumNeededTwice ==
    /\ cfg.ChecksumDuplicates
    /\ \E i \in Records : \E j \in 1..(i - 1) :
          /\ Resolved(i)
          /\ InIndex(j)
          /\ fileSizeTime(files[j]) = fileSizeTime(files[i])
          /\ files[i].Hashed = 1
          /\ files[j].Hashed = 1
          /\ <<files[j].DestDir, ExpectedName(j, 0)>> \in DOMAIN disk
          /\ Len(disk[<<files[j].DestDir, ExpectedName(j, 0)>>].content) = files[j].Size

(***************************************************************************)
(* C27: a checksum that cannot be computed                                 *)
(***************************************************************************)
\* no stat fails in this run, and a candidate of record i is free
NameToBeHad(i) ==
    /\ denied = {}
    /\ \E n \in 0..MaxSuffix : FreeCandidate(i, n)

\* C27: a record is never lost to a checksum that could not be computed:
\* where no stat fails and one of its candidates is free, so that the only
\* failures left are those of calculateXXHash, on its source, on an indexed
\* earlier source or on a destination file, every resolved record has a
\* destination name and is not unnamable.
C27_ChecksumFailureIsNotFatal ==
    \A i \in Records :
        Resolved(i) /\ NameToBeHad(i) =>
            /\ files[i].Status # StatusUnnamable
            /\ files[i].DestName # NoName

(***************************************************************************)
(* C28: a stat that fails                                                  *)
(***************************************************************************)
\* the probe loop of record i came to candidate n: no earlier record made
\* the record a duplicate, and every candidate below n was occupied by
\* something else than a duplicate
ProbeCameTo(i, n) ==
    /\ ~DuplicateOfEarlier(i)
    /\ \A m \in 0..(n - 1) : CandidatePath(i, m) \notin denied /\ OccupiedByOther(i, m)

\* C28: when the probe loop of a record comes to a candidate whose stat
\* fails for another reason than "does not exist", the resolver returns an
\* error there: the record has no DestName, is neither to be written nor
\* pre-existing, made no stat beyond that candidate, and is not in the
\* index.
C28_StatErrorStopsResolver ==
    \A i \in Records : \A n \in 0..MaxSuffix :
        /\ Resolved(i)
        /\ unreadable = {}
        /\ CandidatePath(i, n) \in denied
        /\ ProbeCameTo(i, n)
        => /\ files[i].DestName = NoName
           /\ files[i].Status = StatusUnnamable
           /\ files[i].Stats = n + 1
           /\ ~InIndex(i)

\* the initial name of a record is occupied, the stat of _001 fails, _002
\* is free, and the record has no name
C28_StatFailsAtFirstSuffix ==
    \E i \in Records :
        /\ Resolved(i)
        /\ CandidatePath(i, 1) \in denied
        /\ CandidatePath(i, 1) \notin DOMAIN disk
        /\ ProbeCameTo(i, 1)
        /\ FreeCandidate(i, 2)
        /\ files[i].DestName = NoName
        /\ files[i].Stats = 2

(***************************************************************************)
(* C29: the grounds on which a record is unnamable                         *)
(***************************************************************************)
\* the check of record i against the destination file at candidate n needs
\* a checksum that cannot be computed, of the source or of that file
ChecksumFails(i, n) ==
    LET path == CandidatePath(i, n)
    IN /\ cfg.ChecksumDuplicates
       /\ path \in DOMAIN disk
       /\ Len(disk[path].content) = files[i].Size
       /\ SourcePath(files[i]) \in unreadable \/ path \in unreadable

\* the probe loop of record i went past candidate n: its stat succeeded,
\* the name is occupied, and the file there, if any, was found to be no
\* duplicate
PassedOver(i, n) ==
    /\ CandidatePath(i, n) \notin denied
    /\ OccupiedByOther(i, n)
    /\ ~ChecksumFails(i, n)

\* the unnamable records
Unnamable == {i \in Records : files[i].Status = StatusUnnamable}

\* C29 as stated: a record is unnamable only if its initial name and every
\* suffixed candidate are occupied by non-duplicates.
C29_UnnamableOnlyWhenExhausted ==
    \A i \in Unnamable : \A n \in 0..MaxSuffix : PassedOver(i, n)

\* C29 as planning does it: a record is unnamable only if it is a
\* non-sidecar record for which the resolver returned an error, and the
\* resolver does so on three grounds only: every candidate is occupied by a
\* non-duplicate; or the candidates below some n are and the stat of
\* candidate n fails; or the candidates below some n are and a checksum
\* needed to compare the record with the file at candidate n cannot be
\* computed.
C29_UnnamableOnlyOnResolverError ==
    \A i \in Unnamable :
        /\ Resolved(i)
        /\ ~GroundInIndex(i)
        /\ files[i].DestName = NoName
        /\ \E n \in 0..(MaxSuffix + 1) :
              /\ \A m \in 0..(n - 1) : PassedOver(i, m)
              /\ \/ n = MaxSuffix + 1
                 \/ n <= MaxSuffix /\ CandidatePath(i, n) \in denied
                 \/ n <= MaxSuffix /\ CandidatePath(i, n) \notin denied /\ ChecksumFails(i, n)

\* a record is unnamable because the stat of its initial name failed, and
\* nothing at all is at that name or at the next
C29_UnnamableWhereNamesAreFree ==
    \E i \in Unnamable :
        /\ CandidatePath(i, 0) \in denied
        /\ FreeCandidate(i, 0)
        /\ FreeCandidate(i, 1)

(***************************************************************************)
(* C30: the parent lookup table                                            *)
(***************************************************************************)
\* the key of record i: its source directory and the lowercased base of
\* its source name
LinkKey(i) == <<files[i].SourceDir, ToLower(files[i].SourceName.base)>>

\* the non-sidecar records of a key
MediaOfKey(key) ==
    {j \in Records : files[j].MediaCategory # Sidecar /\ LinkKey(j) = key}

\* the lowest index of a non-empty set of records
Lowest(S) == CHOOSE j \in S : \A k \in S : j <= k

\* pass 2 has dealt with record i, a sidecar whose action is copy
LinkedCopySidecar(i) ==
    /\ pc = "pass2"
    /\ i < idx
    /\ files[i].MediaCategory = Sidecar
    /\ getSidecarAction(StripDot(ToLower(files[i].SourceName.ext)),
                        cfg.Sidecars, cfg.SidecarDefault) = SidecarCopy

\* C30: once the table is built, its keys are the keys of the non-sidecar
\* records and each key maps to the lowest-index non-sidecar record of that
\* key; a sidecar with action copy that pass 2 has dealt with has that
\* index as ParentIndex when its key is in the table and -1 when it is not;
\* and a ParentIndex other than -1 is always the index of a non-sidecar
\* record of the same source directory.
C30_ParentIsFirstMediaOfKey ==
    /\ pc = "pass2" =>
          /\ DOMAIN parentIndex = {LinkKey(j) : j \in {k \in Records : files[k].MediaCategory # Sidecar}}
          /\ \A key \in DOMAIN parentIndex : parentIndex[key] = Lowest(MediaOfKey(key))
    /\ \A i \in Records :
          /\ LinkedCopySidecar(i) =>
                files[i].ParentIndex =
                    IF MediaOfKey(LinkKey(i)) # {} THEN Lowest(MediaOfKey(LinkKey(i)))
                    ELSE NoParent
          /\ files[i].ParentIndex # NoParent =>
                /\ files[i].MediaCategory = Sidecar
                /\ files[i].ParentIndex \in Records
                /\ files[files[i].ParentIndex].MediaCategory # Sidecar
                /\ files[files[i].ParentIndex].SourceDir = files[i].SourceDir

\* two media files of one directory share a key; the sidecar of that key
\* is linked to the first of them
C30_SidecarOfTwoCandidates ==
    \E i \in Records : \E j, k \in MediaOfKey(LinkKey(i)) :
        /\ LinkedCopySidecar(i)
        /\ j < k
        /\ files[i].ParentIndex = j

(***************************************************************************)
(* C31: the dispatch order                                                 *)
(***************************************************************************)
\* the sequence s of which q is the interleave s[1], s[n], s[2], s[n-1], ...
Unweave(q) ==
    [k \in 1..Len(q) |->
        IF k <= (Len(q) + 1) \div 2 THEN q[2 * k - 1] ELSE q[2 * (Len(q) - k + 1)]]

\* s lists records by size, largest first
SizeDescending(s) ==
    \A k \in 1..(Len(s) - 1) : files[s[k]].Size >= files[s[k + 1]].Size

\* q holds every record of the work list once and no other record
PermutationOfWorkList(q) ==
    /\ \A k \in DOMAIN q : q[k] \in Records
    /\ \A i \in Records : Occurrences(q, i) = IF InWorkList(i) THEN 1 ELSE 0

\* C31: the queue that copyFiles fills before it starts the workers holds
\* every index of the work list exactly once and no other index, and it is
\* s[1], s[n], s[2], s[n-1], ... for an arrangement s of the work list by
\* size descending: the odd slots go down from the largest record, the even
\* slots go up from the smallest.
C31_DispatchInterleavesSortedWork ==
    [][(pc = "pass2" /\ pc' # "pass2") =>
          /\ PermutationOfWorkList(jobs')
          /\ SizeDescending(Unweave(jobs'))]_vars

\* three jobs are queued and none is taken yet: a large one, the small one,
\* the other large one
C31_LargeSmallLarge ==
    /\ pc = "copy"
    /\ Len(jobs) = 3
    /\ files[jobs[1]].Size > files[jobs[2]].Size
    /\ files[jobs[3]].Size > files[jobs[2]].Size

(***************************************************************************)
(* C32: the bytes-completed counter                                        *)
(***************************************************************************)
\* the job of record i is complete: the worker that took it has added its
\* size to the counter
JobComplete(i) ==
    /\ received[i] >= 1
    /\ \A w \in DOMAIN wjob : wjob[w] # i
    /\ ~cfg.DryRun => files[i].Status = StatusCopied

\* what holds of the counter in every state of the copy phase and after it
CounterIsSumOfCompleteJobs ==
    Planned =>
        /\ totalSize = SizeOf({i \in Records : InWorkList(i)})
        /\ copiedSize = SizeOf({i \in Records : JobComplete(i)})
        /\ 0 <= copiedSize
        /\ copiedSize <= totalSize
        /\ (pc # "copy" /\ faults = 0) => copiedSize = totalSize

\* what holds of it from one state to the next: it stays, or one worker
\* adds the size of the record it holds, once
CounterGrowsByOneJob ==
    \/ copiedSize' = copiedSize
    \/ \E w \in DOMAIN wjob :
          /\ wjob[w] \in Records
          /\ wjob'[w] = 0
          /\ copiedSize' = copiedSize + files[wjob[w]].Size

\* C32: from the start of the copy phase on, the counter is the sum of the
\* sizes of the records whose job is complete, each counted once, so it is
\* never below 0 nor above the byte volume of the work list; in a run in
\* which nothing failed it ends as that volume; and a step leaves it alone
\* or adds the size of the one record a worker has just finished.
C32_CounterBoundedAndMonotonic ==
    /\ [](CounterIsSumOfCompleteJobs)
    /\ [][CounterGrowsByOneJob]_vars

\* the pool is done: one job failed and added nothing, the other was
\* copied, and the counter is below the volume of the work list
C32_FailedJobNotCounted ==
    /\ pc \in {"delete", "done"}
    /\ \E i, j \in Records :
          /\ files[i].Status = StatusFailed
          /\ files[j].Status = StatusCopied
          /\ copiedSize = files[j].Size
          /\ totalSize = files[i].Size + files[j].Size

(***************************************************************************)
(* C33: a modification time that cannot be set                             *)
(***************************************************************************)
\* worker w leaves the step after copyFile returned nil, and setFileTimes
\* failed in it
SetFileTimesFailed(w) ==
    /\ wpc[w] = "finish"
    /\ wpc'[w] # "finish"
    /\ faults' # faults

\* C33: in the step in which setFileTimes fails for a job whose copyFile
\* succeeded, the record becomes copied, the destination tree stays as it
\* is, so the file is kept, its size is added to the counter, and nothing
\* is appended to the errors of copyFiles; and copyFiles returns an error
\* only if such an error was appended.
C33_SetFileTimesFailureIsNoFailure ==
    /\ [][\A w \in DOMAIN wpc :
             SetFileTimesFailed(w) =>
                 /\ files'[wjob[w]].Status = StatusCopied
                 /\ disk' = disk
                 /\ copyErrors' = copyErrors
                 /\ copiedSize' = copiedSize + files[wjob[w]].Size]_vars
    /\ []((pc \in {"delete", "done"} /\ copyErrors = <<>>) => ret # "error")

\* the only job of a run was copied, its file is complete and still has the
\* time of its creation by the run, and importMedia returned nil
C33_CopiedWithTimeOfTheRun ==
    /\ pc = "done"
    /\ ret = "nil"
    /\ faults = 1
    /\ Len(files) = 1
    /\ files[1].Status = StatusCopied
    /\ DestPath(files[1]) \in DOMAIN disk
    /\ disk[DestPath(files[1])].mtime = TRun
    /\ disk[DestPath(files[1])].content = srcDisk[SourcePath(files[1])].content

(***************************************************************************)
(* C34: a directory that cannot be created                                 *)
(***************************************************************************)
\* worker w leaves os.MkdirAll with an error
MkdirAllFailed(w) ==
    /\ wpc[w] = "mkdir"
    /\ wpc'[w] # "mkdir"
    /\ faults' # faults

\* what a failed os.MkdirAll does, and what a later os.MkdirAll of a
\* directory that is there does
DirectoryFailureSkipsTheJob ==
    \A w \in DOMAIN wpc :
        /\ MkdirAllFailed(w) =>
              /\ files'[wjob[w]].Status = StatusDirectoryCreationFailed
              /\ copyErrors' = Append(copyErrors, wjob[w])
              /\ wpc'[w] = "recv"
              /\ UNCHANGED <<disk, dirs, copyLog, jobs, copiedSize>>
        /\ (wpc[w] = "mkdir" /\ wpc'[w] # "mkdir" /\ files[wjob[w]].DestDir \in dirs) =>
              /\ wpc'[w] = "open"
              /\ UNCHANGED <<files, copyErrors, faults>>

\* what holds of a record whose directory could not be created, and of the
\* other jobs once the pool is done
DirectoryFailureLeavesNoFile ==
    /\ \A i \in Records :
          files[i].Status = StatusDirectoryCreationFailed =>
              /\ copyLog[i] = EmptyLog
              /\ \A p \in DOMAIN disk : disk[p].gen # i
              /\ received[i] = 1
    /\ (pc \in {"delete", "done"} /\ ~cfg.DryRun) =>
          \A i \in Records :
              InWorkList(i) => received[i] = 1 /\ files[i].Status \in Attempted

\* C34: when os.MkdirAll fails for a job, its record becomes
\* directory-creation-failed, an error is recorded, the worker takes the
\* next job without calling copyFile, so the record never has a destination
\* file of its own; every other job of the work list is still taken and
\* attempted, also those for the same directory; and os.MkdirAll of a
\* directory that another worker has created in the meantime succeeds.
C34_DirectoryFailureSkipsOnlyThatJob ==
    /\ [](DirectoryFailureLeavesNoFile)
    /\ [][DirectoryFailureSkipsTheJob]_vars

\* two workers, two jobs for one directory: the directory could not be
\* created for one job and the other job was copied into it
C34_SameDirectoryFailedAndCopied ==
    /\ pc = "done"
    /\ Len(wpc) = 2
    /\ \E i, j \in Records :
          /\ files[i].Status = StatusDirectoryCreationFailed
          /\ files[j].Status = StatusCopied
          /\ files[i].DestDir = files[j].DestDir
          /\ DestPath(files[j]) \in DOMAIN disk

(***************************************************************************)
(* C35: planning first, and what the copy phase may change                 *)
(***************************************************************************)
\* a record without its Status field
PlanOf(file) == [file EXCEPT !.Status = StatusNone]

\* what holds in every state: while planning is at work no job has been
\* queued or taken and nothing was written, and once copyFiles is called
\* both passes have gone over every record
PlanningBeforeCopying ==
    /\ pc \in {"pass1", "pass2"} =>
          /\ jobs = <<>>
          /\ wpc = <<>>
          /\ \A i \in Records : received[i] = 0 /\ copyLog[i] = EmptyLog
          /\ ~wroteBytes
    /\ Planned =>
          /\ idx > Len(files)
          /\ \A i \in Records :
                files[i].MediaCategory # Sidecar =>
                    \/ files[i].DestName # NoName
                    \/ files[i].Status = StatusUnnamable

\* what holds of every step from the call of copyFiles on
CopyPhaseKeepsThePlan ==
    Planned =>
        /\ Len(files') = Len(files)
        /\ \A i \in Records :
              /\ PlanOf(files'[i]) = PlanOf(files[i])
              /\ files'[i].Status # files[i].Status => InWorkList(i)
        /\ UNCHANGED <<sizeTimeIndex, parentIndex>>

\* C35: no job is queued, taken or written before both planning passes
\* have gone over every record; and from the call of copyFiles on, a step
\* changes no field of any record but Status, and Status only of records
\* of the work list, and leaves the duplicate index and the parent table
\* as they are.
C35_CopyPhaseChangesStatusOnly ==
    /\ [](PlanningBeforeCopying)
    /\ [][CopyPhaseKeepsThePlan]_vars

\* the run is over: a media file that planning had to hash and its linked
\* sidecar were both copied, and the index still lists the media file
C35_PlanKeptThroughCopies ==
    /\ pc = "done"
    /\ \E i, j \in Records :
          /\ files[i].Status = StatusCopied
          /\ files[i].SourceChecksum # NoChecksum
          /\ InIndex(i)
          /\ files[j].ParentIndex = i
          /\ files[j].Status = StatusCopied

(***************************************************************************)
(* C36: the originals of copied records                                    *)
(***************************************************************************)
\* the step of deleteOriginalFiles removes the source of record i
SourceRemoved(i) ==
    /\ SourcePath(files[i]) \in DOMAIN srcDisk
    /\ SourcePath(files[i]) \notin DOMAIN srcDisk'

\* the destination file of record i is there and holds the content of its
\* source
DestinationHoldsSource(i) ==
    /\ DestPath(files[i]) \in DOMAIN disk
    /\ SourcePath(files[i]) \in DOMAIN srcDisk
    /\ disk[DestPath(files[i])].content = srcDisk[SourcePath(files[i])].content

\* C36: when deleteOriginalFiles removes the source of a record with
\* status copied, the file at the record's DestDir and DestName exists and
\* has the content of that source; so the sources of two copied records are
\* never removed while one destination file stands for both.
C36_DeletedCopiedSourceIsAtDestination ==
    [][\A i \in Records :
          (files[i].Status = StatusCopied /\ SourceRemoved(i)) =>
              DestinationHoldsSource(i)]_vars

(***************************************************************************)
(* C37: the originals of pre-existing records                              *)
(***************************************************************************)
\* some destination file has the size of record i and, when checksums are
\* compared, the content of its source
DestinationHasTheLike(i) ==
    \E p \in DOMAIN disk :
        /\ Len(disk[p].content) = files[i].Size
        /\ cfg.ChecksumDuplicates =>
              /\ SourcePath(files[i]) \in DOMAIN srcDisk
              /\ disk[p].content = srcDisk[SourcePath(files[i])].content

\* C37: when deleteOriginalFiles removes the source of a record with
\* status pre-existing, the destination tree holds a file of the record's
\* size and, when checksums are compared, of its content; so a record that
\* is pre-existing because an earlier record of the run matched it keeps
\* its source when that earlier record was not copied.
C37_DeletedPreExistingSourceHasCopy ==
    [][\A i \in Records :
          (files[i].Status = StatusPreExisting /\ SourceRemoved(i)) =>
              DestinationHasTheLike(i)]_vars

(***************************************************************************)
(* Files the destination held before the run                               *)
(***************************************************************************)
\* where a copy-action sidecar of the card is planned in a flat destination:
\* under its parent's base name, or, orphaned, under its own name or time
SidecarPaths(c) ==
    IF c.RenameByDateTime
    THEN { <<DestRoot, Candidate(FormatDateTime(T0), ".xmp", 0)>>,
           <<DestRoot, Candidate(FormatDateTime(T2), ".xmp", 0)>> }
    ELSE { <<DestRoot, Candidate("a", ".xmp", 0)>>,
           <<DestRoot, Candidate("A", ".xmp", 0)>> }

\* a destination that an earlier import left a sidecar in, with or without
\* a media file at the first candidate of the card's a.jpg
ImportedTrees(c) ==
    UNION { { p :> Old(<<9, 9>>),
              (p :> Old(<<9, 9>>)) @@ (ProbePath(c, 0) :> Old(<<2>>)) } :
            p \in SidecarPaths(c) }

\* one worker, flat destination, sidecars copied, a sidecar already there
InitImported ==
    \E c \in Configs({FALSE}, BOOLEAN, {FALSE}, {FALSE}, {NoOverrides},
                      {SidecarDelete}, {1}) :
        Start({c}, ImportedTrees(c), MaxFiles)

SpecImported == InitImported /\ [][Next]_vars

\* the destination file at p was there before the run and this step leaves
\* it in place with the bytes it had
KeptAsItWas(p) ==
    disk[p].gen = 0 =>
        /\ p \in DOMAIN disk'
        /\ disk'[p].gen = 0
        /\ disk'[p].content = disk[p].content

\* C38: no step of a run truncates, overwrites or removes a destination file
\* that existed before the run started, sidecar destinations included
C38_FilesFromBeforeTheRunUntouched ==
    [][\A p \in DOMAIN disk : KeptAsItWas(p)]_vars

(***************************************************************************)
(* Sidecars of unnamable parents                                           *)
(***************************************************************************)
\* record i is a sidecar that pass 2 linked to a parent left unnamable
ChildOfUnnamable(i) ==
    /\ files[i].MediaCategory = Sidecar
    /\ files[i].ParentIndex # NoParent
    /\ files[files[i].ParentIndex].Status = StatusUnnamable

\* C39: a copy-action sidecar linked to an unnamable parent is not copied,
\* and no record reaches a worker with a destination name of empty base
C39_NoJobForChildOfUnnamable ==
    \A i \in Records :
        /\ ChildOfUnnamable(i) => received[i] = 0 /\ files[i].Status # StatusCopied
        /\ received[i] > 0 => files[i].DestName.base # ""

(***************************************************************************)
(* Deletion of originals after the copy phase                              *)
(***************************************************************************)
\* every copy worker has returned: the channel is drained and wg.Wait() is
\* through
WorkersDone ==
    /\ jobs = <<>>
    /\ \A w \in DOMAIN wpc : wpc[w] = "exit"

\* a step that removes a source file is deleteOriginalFiles', taken after
\* the copy phase, with no error from copyFiles
DeletionAfterTheCopyPhase ==
    srcDisk' # srcDisk =>
        /\ pc = "delete"
        /\ WorkersDone
        /\ Len(copyErrors) = 0

\* C40: deleteOriginalFiles starts only after every copy worker has
\* finished, and when copyFiles returns an error importMedia returns it
\* with every original still in place
C40_DeletionOnlyAfterCleanCopyPhase ==
    /\ [][DeletionAfterTheCopyPhase]_vars
    /\ [](pc = "delete" => WorkersDone /\ Len(copyErrors) = 0)
    /\ [](Len(copyErrors) > 0 =>
             [](/\ ret # "nil"
                /\ \A i \in Records : SourcePath(files[i]) \in DOMAIN srcDisk))

\* witness: with DeleteOriginals on, the run returned the error of a failed
\* directory creation and the original of a copied record is still there
C40_CopiedButOriginalKept ==
    /\ pc = "done"
    /\ ret = "error"
    /\ cfg.DeleteOriginals
    /\ ~cfg.DryRun
    /\ \E i \in Records :
          /\ files[i].Status = StatusCopied
          /\ SourcePath(files[i]) \in DOMAIN srcDisk

====
